---- MODULE Spec2Model ----
(***************************************************************************)
(* Model of the job-monitor enrichment and matching pipeline:              *)
(*   filter.py                  _word_re, _kw_in_text, job_matches_user    *)
(*   employment_type_parser.py  _has_keyword, parse_employment_type        *)
(*   location_parser.py         _ensure_lookup, parse_location             *)
(*   main.py                    enrich, run                                *)
(*   db.py                      the calls of the store                     *)
(*   config.py                  SOURCE_COUNTRY                             *)
(*                                                                         *)
(* A Python str is a sequence of one-character strings.  A dict is a       *)
(* function whose DOMAIN is its set of keys.  A list is a sequence.        *)
(***************************************************************************)
EXTENDS Integers, Sequences, FiniteSets, TLC

VARIABLES
    pc,                     \* position of the caller
    keyword, text,          \* arguments of _kw_in_text
    job, prefs,             \* arguments of enrich / job_matches_user
    title, description,     \* arguments of parse_employment_type
    api_employment_type,
    ret,                    \* value returned by the call
    _location_lookup,       \* location_parser's in-memory cache
    \* the store (Supabase) and the mail that has gone out
    jobs_table,             \* ids of the rows of table jobs
    user_job_queue,         \* rows of table user_job_queue, in insertion order
    user_preferences,       \* rows of user_preferences of the active users
    deliveries,             \* per (user, job): successful sends holding the job
    \* locals of main.run
    scraper_ix,             \* position in ALL_SCRAPERS
    jobs,                   \* postings of the current source still to process
    new_jobs,
    recipients,             \* digest recipients still to serve
    \* what has happened in this process
    runs,                   \* runs started so far
    fetches,                \* calls of fetch_swedish_locations
    scraped,                \* positions of the scrapers called
    caught,                 \* <<position, call>> of the errors run has caught
    raised,                 \* the call whose error left run, "" if none
    \* what has happened over all the runs
    happened                \* <<"send_digest failed", user>>, <<"cut short", job id>>

\* the variables of the pipeline run
runVars == <<jobs_table, user_job_queue, user_preferences, deliveries,
             scraper_ix, jobs, new_jobs, recipients, runs, fetches, scraped,
             caught, raised, happened>>

vars == <<pc, keyword, text, job, prefs, title, description,
          api_employment_type, ret, _location_lookup, runVars>>

\* no pipeline run is going on
NoRun ==
    /\ jobs_table = {} /\ user_job_queue = <<>> /\ user_preferences = <<>>
    /\ deliveries = <<>>
    /\ scraper_ix = 0 /\ jobs = <<>> /\ new_jobs = <<>> /\ recipients = <<>>
    /\ runs = 0 /\ fetches = 0 /\ scraped = {} /\ caught = {} /\ raised = ""
    /\ happened = {}

(***************************************************************************)
(* Characters                                                              *)
(***************************************************************************)
AsciiLower == {"a", "b", "c", "d", "e", "f", "g", "h", "i", "j", "k", "l", "m",
               "n", "o", "p", "q", "r", "s", "t", "u", "v", "w", "x", "y", "z"}
AsciiUpper == {"A", "B", "C", "D", "E", "F", "G", "H", "I", "J", "K", "L", "M",
               "N", "O", "P", "Q", "R", "S", "T", "U", "V", "W", "X", "Y", "Z"}
SwedishLower == {"å", "ä", "ö"}
SwedishUpper == {"Å", "Ä", "Ö"}
Digits == {"0", "1", "2", "3", "4", "5", "6", "7", "8", "9"}

UpperSeq == <<"A", "B", "C", "D", "E", "F", "G", "H", "I", "J", "K", "L", "M",
              "N", "O", "P", "Q", "R", "S", "T", "U", "V", "W", "X", "Y", "Z",
              "Å", "Ä", "Ö">>
LowerSeq == <<"a", "b", "c", "d", "e", "f", "g", "h", "i", "j", "k", "l", "m",
              "n", "o", "p", "q", "r", "s", "t", "u", "v", "w", "x", "y", "z",
              "å", "ä", "ö">>

UpperChars == AsciiUpper \cup SwedishUpper
WordChars ==
    AsciiLower \cup AsciiUpper \cup SwedishLower \cup SwedishUpper
    \cup Digits \cup {"_"}
LetterChars == AsciiLower \cup AsciiUpper \cup SwedishLower \cup SwedishUpper
SpaceChars == {" ", "\t", "\n", "\r"}

\* str.lower() on one character
ToLower == [c \in UpperChars |->
               LowerSeq[CHOOSE i \in 1..Len(UpperSeq) : UpperSeq[i] = c]]

LowerChar(c) == IF c \in UpperChars THEN ToLower[c] ELSE c

\* U+0130 (capital I with dot above), the one character whose lower case is
\* two characters long: "i" and the combining dot above, U+0307
DOTTED_I == "U+0130"
COMBINING_DOT == "U+0307"

\* str.lower() where the string holds U+0130: the result is longer
RECURSIVE LowerExpand(_)
LowerExpand(s) ==
    IF s = <<>> THEN <<>>
    ELSE (IF Head(s) = DOTTED_I THEN <<"i", COMBINING_DOT>>
          ELSE <<LowerChar(Head(s))>>) \o LowerExpand(Tail(s))

\* str.lower()
Lower(s) ==
    IF \A i \in 1..Len(s) : s[i] # DOTTED_I
    THEN [i \in 1..Len(s) |-> LowerChar(s[i])]
    ELSE LowerExpand(s)

\* s[a:b] for 0 <= a <= b: both ends are cut to the length of s
Slice(s, a, b) ==
    LET lo == IF a > Len(s) THEN Len(s) ELSE a
        hi == IF b > Len(s) THEN Len(s) ELSE b
    IN  SubSeq(s, lo + 1, hi)

\* \s of the re module
IsSpace(c) == c \in SpaceChars

\* \w of the re module on str patterns (Unicode): alphanumerics and underscore
IsWordChar(c) == c \in WordChars

\* the character class [a-zåäöA-ZÅÄÖ] of the two parsers
IsLetter(c) == c \in LetterChars

\* str.strip() leaves the empty string
IsBlank(s) == \A i \in 1..Len(s) : IsSpace(s[i])

\* all sequences over alphabet of length at most n
RECURSIVE SeqsUpTo(_, _)
SeqsUpTo(alphabet, n) ==
    IF n = 0 THEN {<<>>}
    ELSE LET shorter == SeqsUpTo(alphabet, n - 1)
         IN  shorter \cup {Append(s, c) : s \in shorter, c \in alphabet}

(***************************************************************************)
(* filter.py: _word_re and _kw_in_text                                     *)
(***************************************************************************)
\* the pattern element \s+ ; every other pattern element is a literal char
WsPlus == "\\s+"

\* re.escape makes every character of the keyword a literal; the escaped
\* text is split at each escaped space and joined again with \s+, so each
\* space of the keyword becomes one \s+ element.
_word_re_spaces_literal(kw) == kw

_word_re(kw) ==
    [i \in 1..Len(kw) |-> IF kw[i] = " " THEN WsPlus ELSE kw[i]]

\* \b : a word character on exactly one side of the gap after txt[p]
WordBoundary(txt, p) ==
    LET before == p >= 1 /\ p <= Len(txt) /\ IsWordChar(txt[p])
        after  == p + 1 >= 1 /\ p + 1 <= Len(txt) /\ IsWordChar(txt[p + 1])
    IN  before # after

\* whitespace runs txt[i..j-1], j > i
WsRunEnds(txt, i) ==
    {j \in (i + 1)..(Len(txt) + 1) : \A m \in i..(j - 1) : IsSpace(txt[m])}

\* the indexes just past a match of pat[k..] that starts at txt[i]
\* (re.IGNORECASE: a literal matches a character of either case)
RECURSIVE MatchEnds(_, _, _, _)
MatchEnds(pat, txt, k, i) ==
    IF k > Len(pat) THEN {i}
    ELSE IF pat[k] = WsPlus
         THEN UNION {MatchEnds(pat, txt, k + 1, j) : j \in WsRunEnds(txt, i)}
         ELSE IF i <= Len(txt) /\ LowerChar(txt[i]) = LowerChar(pat[k])
              THEN MatchEnds(pat, txt, k + 1, i + 1)
              ELSE {}

\* re.compile(rf"\b{pattern}\b", re.IGNORECASE).search(txt) is not None
WordReSearch(pat, txt) ==
    \E s \in 0..Len(txt) :
        /\ WordBoundary(txt, s)
        /\ \E e \in MatchEnds(pat, txt, 1, s + 1) : WordBoundary(txt, e - 1)

\* the same search without the two \b
SubstringSearch(pat, txt) ==
    \E s \in 0..Len(txt) : MatchEnds(pat, txt, 1, s + 1) # {}

_kw_in_text_substring(kw, txt) == SubstringSearch(_word_re(kw), txt)

_kw_in_text(kw, txt) == WordReSearch(_word_re(kw), txt)

(***************************************************************************)
(* Calls of _kw_in_text                                                    *)
(***************************************************************************)
MaxTextLen == 4

KwTextAlphabet == {"v", "D", "ä", " ", "+"}
KwAlphabet == {"v", "d", " ", "+"}

ExampleTexts ==
    { <<"N", "y", " ", "V", "D", " ", "s", "ö", "k", "e", "s">>,
      <<"L", "a", "n", "d", "s", "b", "y", "g", "d", "s", "a", "v", "d", "e",
        "l", "n", "i", "n", "g", "e", "n">>,
      <<"V", "i", "c", "e", " ", " ", "P", "r", "e", "s", "i", "d", "e", "n", "t">>,
      <<"V", "i", "c", "e", "\t", "\n", "P", "r", "e", "s", "i", "d", "e", "n", "t">>,
      <<"V", "i", "c", "e", "P", "r", "e", "s", "i", "d", "e", "n", "t">>,
      <<"P", "r", "e", "s", "i", "d", "e", "n", "t", " ", "V", "i", "c", "e">>,
      <<"C", "+", "+", " ", "u", "t", "v", "e", "c", "k", "l", "a", "r", "e">> }

ExampleKeywords ==
    { <<"V", "D">>,
      <<"V", "i", "c", "e", " ", "P", "r", "e", "s", "i", "d", "e", "n", "t">>,
      <<"C", "+", "+">> }

KwTexts == SeqsUpTo(KwTextAlphabet, MaxTextLen) \cup ExampleTexts

\* keywords of one to three characters, at least one of them a word character
KwKeywords ==
    {kw \in {<<a>> : a \in KwAlphabet}
            \cup {<<a, b>> : a \in KwAlphabet, b \in KwAlphabet}
            \cup {<<a, b, c>> : a \in KwAlphabet, b \in KwAlphabet, c \in KwAlphabet} :
        \E i \in 1..Len(kw) : IsWordChar(kw[i])}
    \cup ExampleKeywords

NoText == <<>>
NoDict == <<>>

\* _location_lookup is None: <<>>; once built it is <<the dict>>
LookupUnset == <<>>

InitKw ==
    /\ pc = "call"
    /\ NoRun
    /\ keyword \in KwKeywords
    /\ text \in KwTexts
    /\ ret = FALSE
    /\ job = NoDict /\ prefs = NoDict
    /\ title = NoText /\ description = NoText /\ api_employment_type = NoText
    /\ _location_lookup = LookupUnset

KwInText ==
    /\ pc = "call"
    /\ ret' = _kw_in_text(keyword, text)
    /\ pc' = "done"
    /\ UNCHANGED <<runVars, keyword, text, job, prefs, title, description,
                   api_employment_type, _location_lookup>>

NextKw == KwInText

SpecKw == InitKw /\ [][NextKw]_vars

(***************************************************************************)
(* Properties of _kw_in_text                                               *)
(***************************************************************************)
\* the occurrences of the keyword in the text, whatever surrounds them:
\* <<s, e>> when the keyword (either case, each of its spaces standing for
\* a whitespace run) is txt[s..e-1]
Occurrences(kw, txt) ==
    {se \in (1..(Len(txt) + 1)) \X (1..(Len(txt) + 1)) :
        se[2] \in MatchEnds(_word_re(kw), txt, 1, se[1])}

\* the occurrence is immediately preceded or followed by a letter
InsideLongerWord(txt, s, e) ==
    \/ s > 1 /\ IsLetter(txt[s - 1])
    \/ e <= Len(txt) /\ IsLetter(txt[e])

\* the occurrence has the text's end, a space or punctuation on each side
Delimited(txt, s, e) ==
    /\ s = 1 \/ ~IsWordChar(txt[s - 1])
    /\ e = Len(txt) + 1 \/ ~IsWordChar(txt[e])

EdgesAreWordChars(kw) ==
    Len(kw) > 0 /\ IsWordChar(kw[1]) /\ IsWordChar(kw[Len(kw)])

\* C7: a keyword whose every occurrence in the text is inside a longer word
\* (a letter right before or right after it) is not a match, and a keyword
\* with an occurrence delimited by spaces or punctuation is a match.
C7_WholeWord ==
    pc = "done" =>
        /\ (\A se \in Occurrences(keyword, text) :
                InsideLongerWord(text, se[1], se[2])) => ret = FALSE
        /\ (\E se \in Occurrences(keyword, text) :
                Delimited(text, se[1], se[2])) => ret = TRUE

\* the same two statements for the keywords that begin and end with a
\* letter, a digit or an underscore
WholeWordForWordKeywords ==
    (pc = "done" /\ EdgesAreWordChars(keyword)) =>
        /\ (\A se \in Occurrences(keyword, text) :
                InsideLongerWord(text, se[1], se[2])) => ret = FALSE
        /\ (\E se \in Occurrences(keyword, text) :
                Delimited(text, se[1], se[2])) => ret = TRUE

\* a phrase of two words joined by one space: <<w1, w2>>, or <<>> if kw is
\* not such a phrase
PhraseWords(kw) ==
    LET sp == {i \in 1..Len(kw) : kw[i] = " "}
    IN  IF /\ Cardinality(sp) = 1
           /\ \A i \in 1..Len(kw) : i \in sp \/ IsWordChar(kw[i])
           /\ 1 \notin sp /\ Len(kw) \notin sp
        THEN LET i == CHOOSE j \in sp : TRUE
             IN  <<SubSeq(kw, 1, i - 1), SubSeq(kw, i + 1, Len(kw))>>
        ELSE <<>>

\* txt holds w1, then n >= 1 whitespace characters, then w2, in either case,
\* with no word character right before w1 or right after w2
PhraseOccurs(w1, w2, txt) ==
    \E s \in 1..Len(txt), n \in 1..Len(txt) :
        LET a == s + Len(w1)
            b == a + n
            e == b + Len(w2)
        IN  /\ e <= Len(txt) + 1
            /\ Lower(SubSeq(txt, s, a - 1)) = Lower(w1)
            /\ \A m \in a..(b - 1) : IsSpace(txt[m])
            /\ Lower(SubSeq(txt, b, e - 1)) = Lower(w2)
            /\ s = 1 \/ ~IsWordChar(txt[s - 1])
            /\ e = Len(txt) + 1 \/ ~IsWordChar(txt[e])

None == <<"<None>">>

\* x or ""
OrEmpty(x) == IF x = None THEN <<>> ELSE x

\* truth value of a str or None
Truthy(x) == x # None /\ x # <<>>

\* str.strip()
Strip(s) ==
    LET keep == {i \in 1..Len(s) : ~IsSpace(s[i])}
    IN  IF keep = {} THEN <<>>
        ELSE SubSeq(s, CHOOSE i \in keep : \A j \in keep : i <= j,
                       CHOOSE i \in keep : \A j \in keep : i >= j)

INTERIM == <<"i", "n", "t", "e", "r", "i", "m">>
PERMANENT == <<"p", "e", "r", "m", "a", "n", "e", "n", "t">>

_INTERIM_KEYWORDS ==
    << <<"i", "n", "t", "e", "r", "i", "m">>,
       <<"f", "r", "a", "c", "t", "i", "o", "n", "a", "l">>,
       <<"k", "o", "n", "s", "u", "l", "t">>,
       <<"u", "p", "p", "d", "r", "a", "g">>,
       <<"d", "e", "l", "t", "i", "d">>,
       <<"k", "o", "n", "s", "u", "l", "t", "u", "p", "p", "d", "r", "a", "g">>,
       <<"i", "n", "t", "e", "r", "i", "m", "s", "c", "h", "e", "f">> >>

_PERMANENT_KEYWORDS ==
    << <<"t", "i", "l", "l", "s", "v", "i", "d", "a", "r", "e">>,
       <<"f", "a", "s", "t", " ", "t", "j", "ä", "n", "s", "t">>,
       <<"p", "e", "r", "m", "a", "n", "e", "n", "t">>,
       <<"h", "e", "l", "t", "i", "d">>,
       <<"t", "i", "l", "l", "s", "v", "i", "d", "a", "r", "e", "a", "n", "s",
         "t", "ä", "l", "l", "n", "i", "n", "g">>,
       <<"f", "a", "s", "t", " ", "a", "n", "s", "t", "ä", "l", "l", "n", "i",
         "n", "g">> >>

\* the structured values of the source API that parse_employment_type knows
InterimHints ==
    { <<"i", "n", "t", "e", "r", "i", "m">>,
      <<"k", "o", "n", "s", "u", "l", "t">>,
      <<"c", "o", "n", "s", "u", "l", "t", "a", "n", "t">>,
      <<"t", "e", "m", "p", "o", "r", "a", "r", "y">>,
      <<"v", "i", "s", "s", "t", "i", "d">> }

PermanentHints ==
    { <<"p", "e", "r", "m", "a", "n", "e", "n", "t">>,
      <<"t", "i", "l", "l", "s", "v", "i", "d", "a", "r", "e">>,
      <<"f", "u", "l", "l", "-", "t", "i", "m", "e">>,
      <<"h", "e", "l", "t", "i", "d">> }

\* the occurrences of kw, whatever is next to them
SubstringStarts(kw, txt) ==
    {s \in 1..(Len(txt) - Len(kw) + 1) : SubSeq(txt, s, s + Len(kw) - 1) = kw}

\* re.search(r"(?<![a-zåäöA-ZÅÄÖ])" + re.escape(kw) + r"(?![a-zåäöA-ZÅÄÖ])", txt):
\* the start indexes of the occurrences of kw with no letter on either side
LetterBoundedStarts(kw, txt) ==
    {s \in 1..(Len(txt) - Len(kw) + 1) :
        /\ SubSeq(txt, s, s + Len(kw) - 1) = kw
        /\ s = 1 \/ ~IsLetter(txt[s - 1])
        /\ s + Len(kw) > Len(txt) \/ ~IsLetter(txt[s + Len(kw)])}

_has_keyword_substring(txt, keywords) ==
    \E k \in 1..Len(keywords) : SubstringStarts(keywords[k], txt) # {}

_has_keyword(txt, keywords) ==
    \E k \in 1..Len(keywords) : LetterBoundedStarts(keywords[k], txt) # {}

\* only the title is analysed
TextEmploymentType_title_only(ttl, desc) ==
    LET title_lower == Lower(OrEmpty(ttl))
    IN  IF _has_keyword(title_lower, _INTERIM_KEYWORDS) THEN INTERIM
        ELSE IF _has_keyword(title_lower, _PERMANENT_KEYWORDS) THEN PERMANENT
        ELSE None

\* step 2 of parse_employment_type: the text analysis
TextEmploymentType(ttl, desc) ==
    LET txt == Lower(OrEmpty(ttl) \o <<" ">> \o OrEmpty(desc))
        is_interim == _has_keyword(txt, _INTERIM_KEYWORDS)
        is_permanent == _has_keyword(txt, _PERMANENT_KEYWORDS)
        title_lower == Lower(OrEmpty(ttl))
    IN  IF is_interim /\ is_permanent
        THEN IF _has_keyword(title_lower, _INTERIM_KEYWORDS) THEN INTERIM
             ELSE IF _has_keyword(title_lower, _PERMANENT_KEYWORDS) THEN PERMANENT
             ELSE None
        ELSE IF is_interim THEN INTERIM
        ELSE IF is_permanent THEN PERMANENT
        ELSE None

\* the hint is used as it is, neither trimmed nor lower-cased
parse_employment_type_raw_hint(ttl, desc, api) ==
    IF Truthy(api) /\ api \in InterimHints THEN INTERIM
    ELSE IF Truthy(api) /\ api \in PermanentHints THEN PERMANENT
    ELSE TextEmploymentType(ttl, desc)

\* the text analysis comes first, the hint only when the text says nothing
parse_employment_type_text_first(ttl, desc, api) ==
    LET normalized == Lower(Strip(api))
    IN  IF TextEmploymentType(ttl, desc) # None THEN TextEmploymentType(ttl, desc)
        ELSE IF Truthy(api) /\ normalized \in InterimHints THEN INTERIM
        ELSE IF Truthy(api) /\ normalized \in PermanentHints THEN PERMANENT
        ELSE None

parse_employment_type(ttl, desc, api) ==
    LET normalized == Lower(Strip(api))
    IN  IF Truthy(api) /\ normalized \in InterimHints THEN INTERIM
        ELSE IF Truthy(api) /\ normalized \in PermanentHints THEN PERMANENT
        ELSE TextEmploymentType(ttl, desc)

(***************************************************************************)
(* Calls of parse_employment_type                                          *)
(***************************************************************************)
MaxTitlePieces == 3

\* a title is built of at most MaxTitlePieces of these pieces
TitlePieces ==
    { <<"I", "n", "t", "e", "r", "i", "m">>,
      <<"h", "e", "l", "t", "i", "d">>,
      <<"f", "a", "s", "t">>,
      <<"t", "j", "ä", "n", "s", "t">>,
      <<" ">>, <<"ö">>, <<"-">> }

RECURSIVE Flatten(_)
Flatten(ss) == IF ss = <<>> THEN <<>> ELSE Head(ss) \o Flatten(Tail(ss))

EmpTitles ==
    {Flatten(ps) : ps \in SeqsUpTo(TitlePieces, MaxTitlePieces)}
    \cup { None,
           <<"I", "n", "t", "e", "r", "i", "m", " ", "C", "F", "O">>,
           <<"I", "n", "t", "e", "r", "i", "m", " ", "V", "D", ",", " ", "t", "i",
             "l", "l", "s", "v", "i", "d", "a", "r", "e", "a", "n", "s", "t", "ä",
             "l", "l", "n", "i", "n", "g", " ", "m", "ö", "j", "l", "i", "g">> }

EmpDescriptions ==
    { None, <<>>,
      <<"t", "j", "ä", "n", "s", "t">>,
      <<"h", "e", "l", "t", "i", "d">>,
      <<"K", "o", "n", "s", "u", "l", "t", "u", "p", "p", "d", "r", "a", "g">>,
      <<"k", "o", "n", "s", "u", "l", "t", "e", "r">>,
      <<"D", "e", "l", "t", "i", "d", ",", " ", "f", "a", "s", "t", " ", "a", "n",
        "s", "t", "ä", "l", "l", "n", "i", "n", "g">>,
      <<"v", "i", "k", "a", "r", "i", "a", "t">> }

EmpHints ==
    { None, <<>>,
      <<"t", "i", "l", "l", "s", "v", "i", "d", "a", "r", "e">>,
      <<" ", "T", "i", "l", "l", "s", "v", "i", "d", "a", "r", "e", " ">>,
      <<"K", "o", "n", "s", "u", "l", "t">>,
      <<"f", "u", "l", "l", "-", "t", "i", "m", "e">>,
      <<"v", "i", "k", "a", "r", "i", "a", "t">>,
      <<"d", "e", "l", "t", "i", "d">> }

InitEmp ==
    /\ pc = "call"
    /\ NoRun
    /\ title \in EmpTitles
    /\ description \in EmpDescriptions
    /\ api_employment_type \in EmpHints
    /\ ret = None
    /\ keyword = NoText /\ text = NoText
    /\ job = NoDict /\ prefs = NoDict
    /\ _location_lookup = LookupUnset

ParseEmploymentType ==
    /\ pc = "call"
    /\ ret' = parse_employment_type(title, description, api_employment_type)
    /\ pc' = "done"
    /\ UNCHANGED <<runVars, keyword, text, job, prefs, title, description,
                   api_employment_type, _location_lookup>>

NextEmp == ParseEmploymentType

SpecEmp == InitEmp /\ [][NextEmp]_vars

(***************************************************************************)
(* Properties of parse_employment_type                                     *)
(***************************************************************************)
\* the two vocabularies of structured hints, as the specification lists them
InterimVocabulary ==
    { <<"i", "n", "t", "e", "r", "i", "m">>,
      <<"k", "o", "n", "s", "u", "l", "t">>,
      <<"c", "o", "n", "s", "u", "l", "t", "a", "n", "t">>,
      <<"t", "e", "m", "p", "o", "r", "a", "r", "y">>,
      <<"v", "i", "s", "s", "t", "i", "d">> }

PermanentVocabulary ==
    { <<"p", "e", "r", "m", "a", "n", "e", "n", "t">>,
      <<"t", "i", "l", "l", "s", "v", "i", "d", "a", "r", "e">>,
      <<"f", "u", "l", "l", "-", "t", "i", "m", "e">>,
      <<"h", "e", "l", "t", "i", "d">> }

\* the hint of the call, trimmed and lower-cased (<<>> when there is none)
NormalizedHint ==
    IF api_employment_type = None THEN <<>>
    ELSE Lower(Strip(api_employment_type))

\* C9: a hint that is, after trim and lowercase, in the interim vocabulary
\* gives "interim" and one in the permanent vocabulary gives "permanent",
\* whatever the title and the description say.
C9_HintWins ==
    pc = "done" =>
        /\ NormalizedHint \in InterimVocabulary => ret = INTERIM
        /\ NormalizedHint \in PermanentVocabulary => ret = PERMANENT

\* hint "tillsvidare" with title "Interim CFO" gives "permanent"
C9_Witness ==
    /\ pc = "done"
    /\ title = <<"I", "n", "t", "e", "r", "i", "m", " ", "C", "F", "O">>
    /\ api_employment_type = <<"t", "i", "l", "l", "s", "v", "i", "d", "a", "r", "e">>
    /\ ret = PERMANENT

\* the signals of the call's combined text and of its title alone
CombinedText == Lower(OrEmpty(title) \o <<" ">> \o OrEmpty(description))
TitleText == Lower(OrEmpty(title))
NoRecognizedHint ==
    NormalizedHint \notin InterimVocabulary \cup PermanentVocabulary
BothSignals ==
    /\ _has_keyword(CombinedText, _INTERIM_KEYWORDS)
    /\ _has_keyword(CombinedText, _PERMANENT_KEYWORDS)
TitleInterim == _has_keyword(TitleText, _INTERIM_KEYWORDS)
TitlePermanent == _has_keyword(TitleText, _PERMANENT_KEYWORDS)

\* C10: with no recognized hint and both signals in title+description, a
\* title with only an interim signal gives "interim", a title with only a
\* permanent signal gives "permanent", and a title with neither signal or
\* with both signals gives None.
C10_TieBreak ==
    (pc = "done" /\ NoRecognizedHint /\ BothSignals) =>
        /\ (TitleInterim /\ ~TitlePermanent) => ret = INTERIM
        /\ (TitlePermanent /\ ~TitleInterim) => ret = PERMANENT
        /\ (~TitleInterim /\ ~TitlePermanent) => ret = None
        /\ (TitleInterim /\ TitlePermanent) => ret = None

\* what the tie-break does: an interim signal in the title wins, also over a
\* permanent signal in the same title
TieBreakInterimFirst ==
    (pc = "done" /\ NoRecognizedHint /\ BothSignals) =>
        /\ TitleInterim => ret = INTERIM
        /\ (TitlePermanent /\ ~TitleInterim) => ret = PERMANENT
        /\ (~TitleInterim /\ ~TitlePermanent) => ret = None

(***************************************************************************)
(* filter.py: job_matches_user                                             *)
(***************************************************************************)
\* None where a list is expected, told apart from every list of str
NoneList == <<None>>

\* d.get(k, dflt)
Get(d, k, dflt) == IF k \in DOMAIN d THEN d[k] ELSE dflt

\* lst or dflt
ListOr(lst, dflt) == IF lst = NoneList \/ lst = <<>> THEN dflt ELSE lst

\* x in lst
InList(x, lst) == \E i \in 1..Len(lst) : lst[i] = x

\* f"{x}"
Str(x) == IF x = None THEN <<"N", "o", "n", "e">> ELSE x

SE == <<"S", "E">>
DK == <<"D", "K">>
NO == <<"N", "O">>

\* text = f"{job.get('title', '')} {job.get('description', '')}"
SearchText(j) ==
    Str(Get(j, "title", <<>>)) \o <<" ">> \o Str(Get(j, "description", <<>>))

\* 1a. an empty countries preference lets every country through
CountryRejects_empty_is_all(j, p) ==
    LET countries == ListOr(Get(p, "countries", NoneList), <<>>)
        got == Get(j, "country", None)
        job_country == IF Truthy(got) THEN got ELSE SE
    IN  countries # <<>> /\ ~InList(job_country, countries)

\* 1a. Country
CountryRejects(j, p) ==
    LET countries == ListOr(Get(p, "countries", NoneList), <<SE>>)
        got == Get(j, "country", None)
        job_country == IF Truthy(got) THEN got ELSE SE
    IN  ~InList(job_country, countries)

\* 1b. the source check left out
SourceRejects_never(j, p) == FALSE

\* 1b. Source
SourceRejects(j, p) ==
    LET sources == ListOr(Get(p, "sources_enabled", NoneList), <<>>)
    IN  sources # <<>> /\ ~InList(Get(j, "source", None), sources)

\* 2. every include keyword must match
IncludeRejects_all(j, p) ==
    LET kw_inc == ListOr(Get(p, "keywords_include", NoneList), <<>>)
    IN  kw_inc # <<>> /\
        ~(\A i \in 1..Len(kw_inc) : _kw_in_text(kw_inc[i], SearchText(j)))

\* 2. Keyword include
IncludeRejects(j, p) ==
    LET kw_inc == ListOr(Get(p, "keywords_include", NoneList), <<>>)
    IN  kw_inc # <<>> /\
        ~(\E i \in 1..Len(kw_inc) : _kw_in_text(kw_inc[i], SearchText(j)))

\* 3. only the first exclude keyword is looked at
ExcludeRejects_first(j, p) ==
    LET kw_exc == ListOr(Get(p, "keywords_exclude", NoneList), <<>>)
    IN  kw_exc # <<>> /\ _kw_in_text(kw_exc[1], SearchText(j))

\* 3. Keyword exclude
ExcludeRejects(j, p) ==
    LET kw_exc == ListOr(Get(p, "keywords_exclude", NoneList), <<>>)
    IN  kw_exc # <<>> /\
        (\E i \in 1..Len(kw_exc) : _kw_in_text(kw_exc[i], SearchText(j)))

\* 4.-6. a posting whose value is None is rejected like any non-member
KnownValueRejects_none_too(j, p, prefKey, jobKey) ==
    LET allowed == ListOr(Get(p, prefKey, NoneList), <<>>)
        value == Get(j, jobKey, None)
    IN  allowed # <<>> /\ ~InList(value, allowed)

\* 4. Region, 5. Municipality, 6. Employment type: the same three lines
KnownValueRejects(j, p, prefKey, jobKey) ==
    LET allowed == ListOr(Get(p, prefKey, NoneList), <<>>)
        value == Get(j, jobKey, None)
    IN  allowed # <<>> /\ value # None /\ ~InList(value, allowed)

job_matches_user(j, p) ==
    IF CountryRejects(j, p) THEN FALSE
    ELSE IF SourceRejects(j, p) THEN FALSE
    ELSE IF IncludeRejects(j, p) THEN FALSE
    ELSE IF ExcludeRejects(j, p) THEN FALSE
    ELSE IF KnownValueRejects(j, p, "regions", "lan_code") THEN FALSE
    ELSE IF KnownValueRejects(j, p, "municipalities", "municipality_code") THEN FALSE
    ELSE IF KnownValueRejects(j, p, "employment_types", "employment_type") THEN FALSE
    ELSE TRUE

(***************************************************************************)
(* Calls of job_matches_user                                               *)
(***************************************************************************)
\* the dicts with key k bound to a value of vals, and the dict without k
Optional(k, vals) == {<<>>} \cup {k :> v : v \in vals}

CAPA == <<"c", "a", "p", "a">>
NIGEL_WRIGHT == <<"n", "i", "g", "e", "l", "_", "w", "r", "i", "g", "h", "t">>

KW_VD == <<"V", "D">>
KW_CEO == <<"C", "E", "O">>
KW_VICE_PRESIDENT ==
    <<"V", "i", "c", "e", " ", "P", "r", "e", "s", "i", "d", "e", "n", "t">>
KW_JUNIOR == <<"j", "u", "n", "i", "o", "r">>
KW_ASSISTANT == <<"a", "s", "s", "i", "s", "t", "a", "n", "t">>

LAN_01 == <<"0", "1">>
LAN_03 == <<"0", "3">>
MUNI_0180 == <<"0", "1", "8", "0">>
MUNI_1280 == <<"1", "2", "8", "0">>

TITLE_NY_VD == <<"N", "y", " ", "V", "D", " ", "s", "ö", "k", "e", "s">>
TITLE_AVDELNINGSCHEF ==
    <<"A", "v", "d", "e", "l", "n", "i", "n", "g", "s", "c", "h", "e", "f">>
DESC_JUNIOR_VP ==
    <<"J", "u", "n", "i", "o", "r", " ", "V", "i", "c", "e", " ", " ", "P", "r",
      "e", "s", "i", "d", "e", "n", "t">>

\* title and description of the postings: description is an optional key
FilterTexts ==
    { "title" :> TITLE_NY_VD,
      "title" :> TITLE_AVDELNINGSCHEF,
      ("title" :> TITLE_AVDELNINGSCHEF) @@ ("description" :> DESC_JUNIOR_VP) }

FilterJobs ==
    { t @@ s @@ c @@ l @@ m @@ e :
        t \in FilterTexts,
        s \in Optional("source", {CAPA, NIGEL_WRIGHT}),
        c \in Optional("country", {DK}),
        l \in {"lan_code" :> v : v \in {None, LAN_01, LAN_03}},
        m \in {"municipality_code" :> v : v \in {None, MUNI_0180, MUNI_1280}},
        e \in {"employment_type" :> v : v \in {None, INTERIM, PERMANENT}} }

FilterPrefs ==
    { c @@ s @@ i @@ x @@ r @@ m @@ e :
        c \in Optional("countries", {<<>>, <<DK>>, <<SE, NO>>}),
        s \in Optional("sources_enabled", {<<CAPA>>}),
        i \in Optional("keywords_include", {<<KW_VD>>, <<KW_CEO, KW_VICE_PRESIDENT>>}),
        x \in Optional("keywords_exclude", {<<KW_ASSISTANT, KW_JUNIOR>>}),
        r \in {"regions" :> v : v \in {NoneList, <<LAN_01>>}},
        m \in {"municipalities" :> v : v \in {<<>>, <<MUNI_0180>>}},
        e \in Optional("employment_types", {<<INTERIM>>}) }

InitFilter ==
    /\ pc = "call"
    /\ NoRun
    /\ job \in FilterJobs
    /\ prefs = NoDict
    /\ ret = FALSE
    /\ keyword = NoText /\ text = NoText
    /\ title = NoText /\ description = NoText /\ api_employment_type = NoText
    /\ _location_lookup = LookupUnset

JobMatchesUser ==
    /\ pc = "call"
    /\ \E p \in FilterPrefs :
        /\ prefs' = p
        /\ ret' = job_matches_user(job, p)
    /\ pc' = "done"
    /\ UNCHANGED <<runVars, keyword, text, job, title, description, api_employment_type,
                   _location_lookup>>

NextFilter == JobMatchesUser

SpecFilter == InitFilter /\ [][NextFilter]_vars

(***************************************************************************)
(* Properties of job_matches_user                                          *)
(***************************************************************************)
\* a preference collection of the call as a set; empty when the key is
\* absent, None or an empty list
PrefSet(k) ==
    LET lst == Get(prefs, k, NoneList)
    IN  IF lst = NoneList THEN {} ELSE {lst[i] : i \in 1..Len(lst)}

\* a field of the posting of the call, None when it has none
JobValue(k) == Get(job, k, None)

\* the preferences of the call with one collection taken out
Without(p, k) == [x \in DOMAIN p \ {k} |-> p[x]]

\* the text formed from the posting's title and description
PostingText ==
    Get(job, "title", <<>>) \o <<" ">> \o Get(job, "description", <<>>)

\* the posting's country, "SE" when it has none
JobCountry == IF JobValue("country") = None THEN SE ELSE JobValue("country")

\* the preferences of the call, changed so that the posting's country is allowed
CountryAllowed == ("countries" :> <<JobCountry>>) @@ prefs

\* the preference is non-empty, the posting's value is known and not a member
DimensionRejects(prefKey, jobKey) ==
    /\ PrefSet(prefKey) # {}
    /\ JobValue(jobKey) # None
    /\ JobValue(jobKey) \notin PrefSet(prefKey)

NullableDimensions ==
    { <<"regions", "lan_code">>,
      <<"municipalities", "municipality_code">>,
      <<"employment_types", "employment_type">> }

\* C1: region, municipality and employment type each reject the posting
\* exactly when the preference is non-empty, the posting's value is not
\* null and the value is not a member: the result is the result without
\* that preference, and False when the dimension rejects.  A null value is
\* never rejected by its dimension.
C1_UnknownPasses ==
    pc = "done" =>
        \A dim \in NullableDimensions :
            ret = (/\ ~DimensionRejects(dim[1], dim[2])
                   /\ job_matches_user(job, Without(prefs, dim[1])))

\* regions holds "01", the posting's lan_code is None, and it matches
C1_Witness ==
    /\ pc = "done"
    /\ PrefSet("regions") = {LAN_01}
    /\ JobValue("lan_code") = None
    /\ PrefSet("municipalities") = {MUNI_0180}
    /\ JobValue("municipality_code") = None
    /\ ret = TRUE

\* the country dimension as section 4.3 words it: no restriction when
\* prefs.countries is empty or absent
CountryPassesUnrestricted ==
    PrefSet("countries") = {} \/ JobCountry \in PrefSet("countries")

\* the country dimension with "SE" standing in for an empty prefs.countries
CountryDim ==
    JobCountry \in (IF PrefSet("countries") = {} THEN {SE} ELSE PrefSet("countries"))

\* C2 as claimed: a non-empty prefs.countries must hold the posting's
\* country ("SE" when it has none); an empty or absent prefs.countries lets
\* every posting through, whatever its country.
C2_EmptyCountriesPassAll ==
    pc = "done" =>
        ret = (CountryPassesUnrestricted /\ job_matches_user(job, CountryAllowed))

\* C2 as amended: a non-empty prefs.countries must hold the posting's
\* country ("SE" when it has none); an empty or absent prefs.countries
\* stands for ["SE"], so only postings whose country is "SE" pass.
C2_EmptyCountriesMeanSE ==
    pc = "done" =>
        ret = (CountryDim /\ job_matches_user(job, CountryAllowed))

\* no countries preference, a "DK" posting that passes every other
\* dimension, and it is rejected
C2_Witness ==
    /\ pc = "done"
    /\ PrefSet("countries") = {}
    /\ JobValue("country") = DK
    /\ job_matches_user(job, CountryAllowed)
    /\ ret = FALSE

SourceDim ==
    PrefSet("sources_enabled") = {} \/ JobValue("source") \in PrefSet("sources_enabled")

IncludeDim ==
    \/ PrefSet("keywords_include") = {}
    \/ \E kw \in PrefSet("keywords_include") : _kw_in_text(kw, PostingText)

ExcludeDim ==
    ~(\E kw \in PrefSet("keywords_exclude") : _kw_in_text(kw, PostingText))

RegionDim == ~DimensionRejects("regions", "lan_code")
MunicipalityDim == ~DimensionRejects("municipalities", "municipality_code")
EmploymentDim == ~DimensionRejects("employment_types", "employment_type")

\* C4: the result is the conjunction of the seven dimension checks, each a
\* predicate of the posting and the preferences alone, so the order of
\* evaluation does not change it; the source dimension passes iff
\* sources_enabled is empty or holds the posting's source.
C4_Conjunction ==
    pc = "done" =>
        /\ ret = (/\ EmploymentDim /\ MunicipalityDim /\ RegionDim
                  /\ ExcludeDim /\ IncludeDim /\ SourceDim /\ CountryDim)
        /\ ret = (SourceDim /\ job_matches_user(job, Without(prefs, "sources_enabled")))

\* the second and the last dimension both reject; every other one passes
C4_Witness ==
    /\ pc = "done"
    /\ ~SourceDim /\ ~EmploymentDim
    /\ CountryDim /\ IncludeDim /\ ExcludeDim /\ RegionDim /\ MunicipalityDim
    /\ ret = FALSE

BONESVIRIK == <<"b", "o", "n", "e", "s", "v", "i", "r", "i", "k">>
VISINDI == <<"v", "i", "s", "i", "n", "d", "i">>

\* the static source -> country table
SOURCE_COUNTRY == (NIGEL_WRIGHT :> DK) @@ (BONESVIRIK :> NO) @@ (VISINDI :> NO)

\* the rows of the store's swedish_locations table, as fetch_swedish_locations
\* returns them
swedish_locations ==
    << [municipality_code |-> <<"0", "1", "8", "0">>,
        municipality_name |-> <<"S", "t", "o", "c", "k", "h", "o", "l", "m">>,
        lan_code |-> <<"0", "1">>,
        lan_name |-> <<"S", "t", "o", "c", "k", "h", "o", "l", "m", "s", " ", "l", "ä", "n">>],
       [municipality_code |-> <<"0", "1", "1", "4">>,
        municipality_name |-> <<"U", "p", "p", "l", "a", "n", "d", "s", " ", "V", "ä", "s", "b", "y">>,
        lan_code |-> <<"0", "1">>,
        lan_name |-> <<"S", "t", "o", "c", "k", "h", "o", "l", "m", "s", " ", "l", "ä", "n">>],
       [municipality_code |-> <<"1", "2", "8", "1">>,
        municipality_name |-> <<"L", "u", "n", "d">>,
        lan_code |-> <<"1", "2">>,
        lan_name |-> <<"S", "k", "å", "n", "e", " ", "l", "ä", "n">>],
       [municipality_code |-> <<"1", "4", "8", "0">>,
        municipality_name |-> <<"G", "ö", "t", "e", "b", "o", "r", "g">>,
        lan_code |-> <<"1", "4">>,
        lan_name |-> <<"V", "ä", "s", "t", "r", "a", " ", "G", "ö", "t", "a", "l", "a", "n", "d", "s", " ", "l", "ä", "n">>] >>

_ALIASES ==
    << << <<"g", "o", "t", "h", "e", "n", "b", "u", "r", "g">>,
          <<"g", "ö", "t", "e", "b", "o", "r", "g">> >>,
       << <<"g", "o", "e", "t", "e", "b", "o", "r", "g">>,
          <<"g", "ö", "t", "e", "b", "o", "r", "g">> >>,
       << <<"m", "a", "l", "m", "o">>,
          <<"m", "a", "l", "m", "ö">> >>,
       << <<"u", "m", "e", "a">>,
          <<"u", "m", "e", "å">> >>,
       << <<"o", "s", "t", "e", "r", "s", "u", "n", "d">>,
          <<"ö", "s", "t", "e", "r", "s", "u", "n", "d">> >>,
       << <<"g", "a", "v", "l", "e">>,
          <<"g", "ä", "v", "l", "e">> >>,
       << <<"v", "a", "s", "t", "e", "r", "a", "s">>,
          <<"v", "ä", "s", "t", "e", "r", "å", "s">> >>,
       << <<"n", "o", "r", "r", "k", "o", "p", "i", "n", "g">>,
          <<"n", "o", "r", "r", "k", "ö", "p", "i", "n", "g">> >>,
       << <<"l", "i", "n", "k", "o", "p", "i", "n", "g">>,
          <<"l", "i", "n", "k", "ö", "p", "i", "n", "g">> >>,
       << <<"j", "o", "n", "k", "o", "p", "i", "n", "g">>,
          <<"j", "ö", "n", "k", "ö", "p", "i", "n", "g">> >>,
       << <<"s", "o", "d", "e", "r", "t", "a", "l", "j", "e">>,
          <<"s", "ö", "d", "e", "r", "t", "ä", "l", "j", "e">> >>,
       << <<"h", "e", "l", "s", "i", "n", "g", "b", "o", "r", "g">>,
          <<"h", "e", "l", "s", "i", "n", "g", "b", "o", "r", "g">> >>,
       << <<"a", "n", "g", "e", "l", "h", "o", "l", "m">>,
          <<"ä", "n", "g", "e", "l", "h", "o", "l", "m">> >>,
       << <<"h", "a", "s", "s", "l", "e", "h", "o", "l", "m">>,
          <<"h", "ä", "s", "s", "l", "e", "h", "o", "l", "m">> >>,
       << <<"o", "r", "n", "s", "k", "o", "l", "d", "s", "v", "i", "k">>,
          <<"ö", "r", "n", "s", "k", "ö", "l", "d", "s", "v", "i", "k">> >>,
       << <<"l", "u", "l", "e", "a">>,
          <<"l", "u", "l", "e", "å">> >>,
       << <<"s", "u", "n", "d", "s", "v", "a", "l", "l">>,
          <<"s", "u", "n", "d", "s", "v", "a", "l", "l">> >>,
       << <<"b", "o", "r", "a", "s">>,
          <<"b", "o", "r", "å", "s">> >>,
       << <<"k", "a", "r", "l", "s", "k", "r", "o", "n", "a">>,
          <<"k", "a", "r", "l", "s", "k", "r", "o", "n", "a">> >> >>

\* a dict in insertion order: a sequence of <<key, value>> pairs
DictHas(d, k) == \E i \in 1..Len(d) : d[i][1] = k

\* d[k]
DictGet(d, k) == d[CHOOSE i \in 1..Len(d) : d[i][1] = k][2]

\* d[k] = v: an existing key keeps its place
DictSet(d, k, v) ==
    IF DictHas(d, k)
    THEN [i \in 1..Len(d) |-> IF d[i][1] = k THEN <<k, v>> ELSE d[i]]
    ELSE Append(d, <<k, v>>)

\* list(d.keys())
DictKeys(d) == [i \in 1..Len(d) |-> d[i][1]]

\* row["municipality_name"].lower() raises: the name of the row is None
UnusableName(row) == row.municipality_name = None

\* the loop over the rows raises at one of them
BuildRaises(rows) == \E i \in 1..Len(rows) : UnusableName(rows[i])

\* for row in rows: _location_lookup[row["municipality_name"].lower()] = row
\* (the loop ends at the first row that raises)
RECURSIVE AddRows(_, _, _)
AddRows(d, rows, i) ==
    IF i > Len(rows) THEN d
    ELSE IF UnusableName(rows[i]) THEN d
    ELSE AddRows(DictSet(d, Lower(rows[i].municipality_name), rows[i]), rows, i + 1)

\* for alias, official in _ALIASES.items(): ...
RECURSIVE AddAliases(_, _)
AddAliases(d, i) ==
    IF i > Len(_ALIASES) THEN d
    ELSE LET alias == _ALIASES[i][1]
             official == _ALIASES[i][2]
         IN  IF DictHas(d, official) /\ ~DictHas(d, alias)
             THEN AddAliases(DictSet(d, alias, DictGet(d, official)), i + 1)
             ELSE AddAliases(d, i + 1)

\* a cache that is built anew by every call
_ensure_lookup_rebuilds(lookup, rows) ==
    IF BuildRaises(rows) THEN <<AddRows(<<>>, rows, 1)>>
    ELSE <<AddAliases(AddRows(<<>>, rows, 1), 1)>>

\* the cache after _ensure_lookup(): built from rows unless it is already
\* set; _location_lookup = {} comes before the loop over the rows, so a loop
\* that raises leaves what it has entered, without the aliases
_ensure_lookup(lookup, rows) ==
    IF lookup # LookupUnset THEN lookup
    ELSE IF BuildRaises(rows) THEN <<AddRows(<<>>, rows, 1)>>
    ELSE <<AddAliases(AddRows(<<>>, rows, 1), 1)>>

\* _ensure_lookup() raises out of the loop over the rows
_ensure_lookup_raises(lookup, rows) ==
    lookup = LookupUnset /\ BuildRaises(rows)

\* the names are left in the order of the dict
InsertByLen_append(sorted, x) == Append(sorted, x)

\* one step of a stable sort, longest first: x goes behind every element that
\* is at least as long
InsertByLen(sorted, x) ==
    LET n == Cardinality({i \in 1..Len(sorted) : Len(sorted[i]) >= Len(x)})
    IN  SubSeq(sorted, 1, n) \o <<x>> \o SubSeq(sorted, n + 1, Len(sorted))

\* sorted(keys, key=len, reverse=True)
RECURSIVE SortedByLen(_, _)
SortedByLen(keys, i) ==
    IF i = 0 THEN <<>> ELSE InsertByLen(SortedByLen(keys, i - 1), keys[i])

NoLocation ==
    [municipality_code |-> None, lan_code |-> None, location_raw |-> None]

\* parse_location, given the contents d of the cache
parse_location(ttl, desc, d) ==
    LET txt == OrEmpty(ttl) \o <<" ">> \o OrEmpty(desc)
        text_lower == Lower(txt)
        candidates == SortedByLen(DictKeys(d), Len(d))
        hits == {c \in 1..Len(candidates) :
                    LetterBoundedStarts(candidates[c], text_lower) # {}}
    IN  IF IsBlank(text_lower) \/ hits = {} THEN NoLocation
        ELSE LET c == CHOOSE h \in hits : \A g \in hits : h <= g
                 name == candidates[c]
                 starts == LetterBoundedStarts(name, text_lower)
                 start == CHOOSE s \in starts : \A t \in starts : s <= t
                 row == DictGet(d, name)
             IN  [municipality_code |-> row.municipality_code,
                  lan_code |-> row.lan_code,
                  location_raw |-> Slice(txt, start - 1, start - 1 + Len(name))]

(***************************************************************************)
(* main.py: enrich                                                         *)
(***************************************************************************)
\* d[k] = v on a dict held as a function
Put(d, k, v) == (k :> v) @@ d

\* a pop that takes the description along
Del_with_description(d, k) == [x \in DOMAIN d \ {k, "description"} |-> d[x]]

\* d.pop(k, None): the dict that is left
Del(d, k) == [x \in DOMAIN d \ {k} |-> d[x]]

\* SOURCE_COUNTRY.get(source) with no default
SourceCountry_no_default(source) ==
    IF source \in DOMAIN SOURCE_COUNTRY THEN SOURCE_COUNTRY[source] ELSE None

\* every source taken for a Swedish one
SourceCountry_always_SE(source) == SE

\* SOURCE_COUNTRY.get(source, "SE")
SourceCountry(source) ==
    IF source \in DOMAIN SOURCE_COUNTRY THEN SOURCE_COUNTRY[source] ELSE SE

\* the first statement of enrich: it has run when the location lookup raises
TagCountry(j) == Put(j, "country", SourceCountry(Get(j, "source", <<>>)))

\* enrich(job), given the contents d of the location cache
enrich(j, d) ==
    LET j1 == TagCountry(j)
        loc == parse_location(Get(j1, "title", <<>>), Get(j1, "description", None), d)
        j2 == Put(Put(Put(j1, "municipality_code", loc.municipality_code),
                      "lan_code", loc.lan_code),
                  "location_raw", loc.location_raw)
        api_et == Get(j2, "api_employment_type", None)
        j3 == Del(j2, "api_employment_type")
    IN  Put(j3, "employment_type",
            parse_employment_type(Get(j3, "title", <<>>),
                                  Get(j3, "description", None), api_et))

(***************************************************************************)
(* Calls of enrich, each followed by a call of job_matches_user            *)
(***************************************************************************)
TITLE_VD_ACME ==
    <<"V", "D", " ", "t", "i", "l", "l", " ", "A", "c", "m", "e", " ", "A",
      "B">>
DESC_STOCKHOLM ==
    <<"K", "o", "n", "t", "o", "r", " ", "i", " ", "S", "t", "o", "c", "k",
      "h", "o", "l", "m">>
TITLE_INTERIM_LUND ==
    <<"I", "n", "t", "e", "r", "i", "m", " ", "C", "F", "O", " ", "L", "u",
      "n", "d">>
TITLE_GOTHENBURG ==
    <<"S", "ä", "l", "j", "a", "r", "e", " ", "G", "o", "t", "h", "e", "n",
      "b", "u", "r", "g">>
HINT_TILLSVIDARE == <<"t", "i", "l", "l", "s", "v", "i", "d", "a", "r", "e">>

\* a scraped posting: id, title, company, url and source always, description
\* and api_employment_type from some scrapers
RawTexts ==
    { ("title" :> TITLE_VD_ACME) @@ ("description" :> DESC_STOCKHOLM),
      "title" :> TITLE_INTERIM_LUND,
      "title" :> TITLE_GOTHENBURG }

RawJobs ==
    { ("id" :> <<"1">>) @@ ("company" :> <<"A">>) @@ ("url" :> <<"u">>)
        @@ t @@ s @@ a :
        t \in RawTexts,
        s \in Optional("source", {CAPA, NIGEL_WRIGHT, BONESVIRIK, VISINDI}),
        a \in Optional("api_employment_type", {HINT_TILLSVIDARE}) }

\* the process has looked locations up before, or it has not
InitEnrich ==
    /\ pc = "raw"
    /\ NoRun
    /\ job \in RawJobs
    /\ _location_lookup \in {LookupUnset, _ensure_lookup(LookupUnset, swedish_locations)}
    /\ prefs = NoDict
    /\ ret = FALSE
    /\ keyword = NoText /\ text = NoText
    /\ title = NoText /\ description = NoText /\ api_employment_type = NoText

\* enrich(job); fetch_swedish_locations raises when the store cannot be
\* reached, which leaves the country set and the other fields not
Enrich ==
    /\ pc = "raw"
    /\ \E reachable \in BOOLEAN :
        IF _location_lookup = LookupUnset /\ ~reachable
        THEN /\ job' = TagCountry(job)
             /\ pc' = "raised"
             /\ UNCHANGED _location_lookup
        ELSE /\ _location_lookup' = _ensure_lookup(_location_lookup, swedish_locations)
             /\ job' = enrich(job, _location_lookup'[1])
             /\ pc' = "call"
    /\ UNCHANGED <<runVars, keyword, text, prefs, title, description,
                   api_employment_type, ret>>

NextEnrich == Enrich \/ JobMatchesUser

SpecEnrich == InitEnrich /\ [][NextEnrich]_vars

(***************************************************************************)
(* Properties of enrich                                                    *)
(***************************************************************************)
\* the sources that have an entry in the source -> country table
TableSources == {NIGEL_WRIGHT, BONESVIRIK, VISINDI}

\* the posting's source, the empty str when it has none
JobSource == Get(job, "source", <<>>)

\* enrich has set the country: it has returned or it raised after doing so
CountrySet == pc \in {"raised", "call", "done"}

\* C3: enrich sets country to the source's entry in the static
\* SOURCE_COUNTRY table and to "SE" for every source absent from that table;
\* a posting so defaulted to "SE" is rejected by job_matches_user for any
\* preferences whose countries is {"DK"}
C3_SourceCountry ==
    /\ CountrySet =>
         /\ "country" \in DOMAIN job
         /\ JobSource = NIGEL_WRIGHT => job["country"] = DK
         /\ JobSource \in {BONESVIRIK, VISINDI} => job["country"] = NO
         /\ JobSource \notin TableSources => job["country"] = SE
    /\ (pc = "done" /\ JobSource \notin TableSources /\ PrefSet("countries") = {DK})
         => ret = FALSE

\* a posting of a source outside the table, enriched, then offered to a user
\* who wants Denmark only and whose other preferences accept it
C3_Witness ==
    /\ pc = "done"
    /\ JobSource = CAPA
    /\ job["country"] = SE
    /\ PrefSet("countries") = {DK}
    /\ job_matches_user(job, CountryAllowed)
    /\ ret = FALSE

(***************************************************************************)
(* Properties of the text analysis of parse_employment_type                *)
(***************************************************************************)
InterimSignal == _has_keyword(CombinedText, _INTERIM_KEYWORDS)
PermanentSignal == _has_keyword(CombinedText, _PERMANENT_KEYWORDS)

\* C11: with no recognized hint, an interim signal and no permanent signal
\* in title+description gives "interim", a permanent signal and no interim
\* signal gives "permanent", no signal gives None; the result is always one
\* of "interim", "permanent" and None, also for a null title or description.
C11_SingleSignal ==
    pc = "done" =>
        /\ ret \in {INTERIM, PERMANENT, None}
        /\ NoRecognizedHint =>
            /\ (InterimSignal /\ ~PermanentSignal) => ret = INTERIM
            /\ (PermanentSignal /\ ~InterimSignal) => ret = PERMANENT
            /\ (~InterimSignal /\ ~PermanentSignal) => ret = None

\* a null title, the only signal in the description
C11_Witness ==
    /\ pc = "done"
    /\ title = None
    /\ description # None
    /\ NoRecognizedHint
    /\ InterimSignal /\ ~PermanentSignal
    /\ ret = INTERIM

\* the keyword stands in the text somewhere with no letter right before it and
\* no letter right after it
StandsAlone(kw, txt) ==
    \E s \in SubstringStarts(kw, txt) : ~InsideLongerWord(txt, s, s + Len(kw))

\* some keyword of the list stands alone / occurs at all in the combined text
AnyStandsAlone(keywords) ==
    \E k \in 1..Len(keywords) : StandsAlone(keywords[k], CombinedText)
AnyOccurs(keywords) ==
    \E k \in 1..Len(keywords) : SubstringStarts(keywords[k], CombinedText) # {}

\* C12: a signal keyword counts only as a whole word: an occurrence right
\* after or right before a letter is no signal, so the classification is
\* the one of the keywords that stand alone, and a text whose keywords all
\* sit inside longer words gives None.
C12_WholeWordSignal ==
    (pc = "done" /\ NoRecognizedHint) =>
        /\ (~AnyStandsAlone(_INTERIM_KEYWORDS) /\ ~AnyStandsAlone(_PERMANENT_KEYWORDS))
              => ret = None
        /\ (AnyStandsAlone(_INTERIM_KEYWORDS) /\ ~AnyStandsAlone(_PERMANENT_KEYWORDS))
              => ret = INTERIM
        /\ (AnyStandsAlone(_PERMANENT_KEYWORDS) /\ ~AnyStandsAlone(_INTERIM_KEYWORDS))
              => ret = PERMANENT

\* keywords occur, every occurrence inside a longer word
C12_Witness ==
    /\ pc = "done"
    /\ NoRecognizedHint
    /\ AnyOccurs(_INTERIM_KEYWORDS) /\ AnyOccurs(_PERMANENT_KEYWORDS)
    /\ ~AnyStandsAlone(_INTERIM_KEYWORDS) /\ ~AnyStandsAlone(_PERMANENT_KEYWORDS)
    /\ ret = None

(***************************************************************************)
(* Calls of parse_location                                                 *)
(***************************************************************************)
ROW_LUND ==
    [municipality_code |-> <<"1", "2", "8", "1">>,
     municipality_name |-> <<"L", "u", "n", "d">>,
     lan_code |-> <<"1", "2">>,
     lan_name |-> <<"S", "k", "å", "n", "e", " ", "l", "ä", "n">>]
ROW_UPPLANDS_VASBY ==
    [municipality_code |-> <<"0", "1", "1", "4">>,
     municipality_name |-> <<"U", "p", "p", "l", "a", "n", "d", "s", " ", "V", "ä", "s", "b", "y">>,
     lan_code |-> <<"0", "1">>,
     lan_name |-> <<"S", "t", "o", "c", "k", "h", "o", "l", "m", "s", " ", "l", "ä", "n">>]
ROW_VASBY ==
    [municipality_code |-> <<"9", "9", "0", "1">>,
     municipality_name |-> <<"V", "ä", "s", "b", "y">>,
     lan_code |-> <<"9", "9">>,
     lan_name |-> <<"E", "x", "e", "m", "p", "e", "l", " ", "l", "ä", "n">>]

\* what the store's table may hold when the cache is built
Gazetteers ==
    { <<>>,
      <<ROW_VASBY, ROW_UPPLANDS_VASBY, ROW_LUND>>,
      <<ROW_LUND, ROW_UPPLANDS_VASBY>>,
      swedish_locations }

MaxLocPieces == 3

\* a title is built of at most MaxLocPieces of these pieces
LocPieces ==
    { <<"L", "u", "n", "d">>,
      <<"G", "r", "u", "n", "d", "s", "k", "o", "l", "a", "n">>,
      <<"U", "p", "p", "l", "a", "n", "d", "s">>,
      <<"V", "ä", "s", "b", "y">>,
      <<" ">>, <<"s">>, <<DOTTED_I>> }

TITLE_GRUNDSKOLAN_I_LUND ==
    <<"G", "r", "u", "n", "d", "s", "k", "o", "l", "a", "n", " ", "i", " ",
      "L", "u", "n", "d">>
TITLE_JOBB_I_UPPLANDS_VASBY ==
    <<"J", "o", "b", "b", " ", "i", " ", "U", "p", "p", "l", "a", "n", "d",
      "s", " ", "V", "ä", "s", "b", "y">>
DESC_KONTOR_I_LUND ==
    <<"K", "o", "n", "t", "o", "r", " ", "i", " ", "L", "U", "N", "D">>
DESC_VASBY_CENTRUM ==
    <<"V", "ä", "s", "b", "y", " ", "c", "e", "n", "t", "r", "u", "m">>

LocTitles ==
    {Flatten(ps) : ps \in SeqsUpTo(LocPieces, MaxLocPieces)}
    \cup {None, TITLE_GRUNDSKOLAN_I_LUND, TITLE_JOBB_I_UPPLANDS_VASBY, TITLE_GOTHENBURG}

\* (a description of blanks only adds nothing to the titles of blanks)
LocDescriptions == {None, <<>>, DESC_KONTOR_I_LUND, DESC_VASBY_CENTRUM}

\* the cache is not built yet, or it was built from one of the gazetteers
InitLoc ==
    /\ pc = "call"
    /\ NoRun
    /\ title \in LocTitles
    /\ description \in LocDescriptions
    /\ _location_lookup \in
         {LookupUnset} \cup {_ensure_lookup(LookupUnset, g) : g \in Gazetteers}
    /\ ret = None
    /\ keyword = NoText /\ text = NoText
    /\ job = NoDict /\ prefs = NoDict
    /\ api_employment_type = NoText

\* parse_location(title, description); fetch_swedish_locations raises when
\* the store cannot be reached
ParseLocation ==
    /\ pc = "call"
    /\ \E reachable \in BOOLEAN :
        IF _location_lookup = LookupUnset /\ ~reachable
        THEN /\ pc' = "raised"
             /\ UNCHANGED <<_location_lookup, ret>>
        ELSE /\ _location_lookup' = _ensure_lookup(_location_lookup, swedish_locations)
             /\ ret' = parse_location(title, description, _location_lookup'[1])
             /\ pc' = "done"
    /\ UNCHANGED <<runVars, keyword, text, job, prefs, title, description,
                   api_employment_type>>

NextLoc == ParseLocation

SpecLoc == InitLoc /\ [][NextLoc]_vars

(***************************************************************************)
(* Properties of parse_location                                            *)
(***************************************************************************)
\* the combined text of the call, as written and in lower case
LocText == OrEmpty(title) \o <<" ">> \o OrEmpty(description)
LoweredLocText == Lower(LocText)

\* the gazetteer of the call: the <<name, entry>> pairs of the built cache,
\* canonical names and aliases
Gazetteer == _location_lookup[1]
GazetteerNames == {Gazetteer[i][1] : i \in 1..Len(Gazetteer)}
EntryOf(name) == Gazetteer[CHOOSE i \in 1..Len(Gazetteer) : Gazetteer[i][1] = name][2]

AllNull ==
    /\ ret.municipality_code = None
    /\ ret.lan_code = None
    /\ ret.location_raw = None

AllPopulated ==
    /\ ret.municipality_code # None
    /\ ret.lan_code # None
    /\ ret.location_raw # None

\* the two codes are those of the entry of this name
CodesOf(name) ==
    /\ ret.municipality_code = EntryOf(name).municipality_code
    /\ ret.lan_code = EntryOf(name).lan_code

\* the same text but for the case of its letters
SameIgnoringCase(a, b) ==
    /\ Len(a) = Len(b)
    /\ \A i \in 1..Len(a) : LowerChar(a[i]) = LowerChar(b[i])

\* all three fields come from one entry, location_raw being its name as the
\* text spells it
FromOneEntry ==
    /\ AllPopulated
    /\ \E name \in GazetteerNames :
        CodesOf(name) /\ SameIgnoringCase(ret.location_raw, name)

\* C13: parse_location is all-or-nothing: either the three fields are all
\* null, or all three are populated, the two codes being those of one
\* gazetteer entry whose name is the text matched as location_raw; an empty
\* or whitespace-only combined text gives all-null.
C13_AllOrNothing ==
    pc = "done" =>
        /\ AllNull \/ FromOneEntry
        /\ IsBlank(LocText) => AllNull

\* what holds of every call: C13 for the texts without U+0130, and for all
\* texts the three fields null together or populated together
AllOrNothingApartFromDottedI ==
    pc = "done" =>
        /\ AllNull \/ AllPopulated
        /\ (\A i \in 1..Len(LocText) : LocText[i] # DOTTED_I)
              => (AllNull \/ FromOneEntry)
        /\ IsBlank(LocText) => AllNull

\* the name stands in the lower-cased text at s with no letter right before
\* it and no letter right after it
StandsAloneAt(name, txt, s) ==
    /\ s + Len(name) - 1 <= Len(txt)
    /\ \A i \in 1..Len(name) : txt[s + i - 1] = name[i]
    /\ s = 1 \/ txt[s - 1] \notin LetterChars
    /\ s + Len(name) > Len(txt) \/ txt[s + Len(name)] \notin LetterChars

\* the gazetteer names that occur as whole words, case-insensitively
MatchingNames ==
    {name \in GazetteerNames :
        \E s \in 1..Len(LoweredLocText) : StandsAloneAt(name, LoweredLocText, s)}

\* C14: whenever two or more gazetteer names occur as whole words in the
\* combined text, the codes returned are those of a name of maximal length
\* among them.
C14_LongestMatch ==
    (pc = "done" /\ Cardinality(MatchingNames) >= 2) =>
        \E name \in MatchingNames :
            /\ \A other \in MatchingNames : Len(other) <= Len(name)
            /\ CodesOf(name)

\* "Väsby" is listed before "Upplands Väsby" and both occur: the codes are
\* those of "Upplands Väsby"
C14_Witness ==
    /\ pc = "done"
    /\ Len(Gazetteer) > 0 /\ Gazetteer[1][2] = ROW_VASBY
    /\ title = TITLE_JOBB_I_UPPLANDS_VASBY
    /\ Cardinality(MatchingNames) >= 2
    /\ ret.municipality_code = ROW_UPPLANDS_VASBY.municipality_code
    /\ ret.lan_code = ROW_UPPLANDS_VASBY.lan_code

\* C15: a gazetteer name is matched only where it has no letter right before
\* it and no letter right after it, case-insensitively: the codes returned
\* are those of a name that occurs so, a text in which no name occurs so
\* gives all-null, and "Grundskolan i Lund" gives Lund with "Lund" as the
\* matched text.
C15_WordBoundary ==
    pc = "done" =>
        /\ MatchingNames = {} => AllNull
        /\ ~AllNull => \E name \in MatchingNames : CodesOf(name)
        /\ (title = TITLE_GRUNDSKOLAN_I_LUND /\ description \in {None, <<>>}
              /\ Lower(ROW_LUND.municipality_name) \in GazetteerNames)
              => /\ CodesOf(Lower(ROW_LUND.municipality_name))
                 /\ ret.location_raw = ROW_LUND.municipality_name

\* "Lund" is in the gazetteer and in the text, inside "Grundskolan" only
C15_Witness ==
    /\ pc = "done"
    /\ Lower(ROW_LUND.municipality_name) \in GazetteerNames
    /\ SubstringStarts(Lower(ROW_LUND.municipality_name), LoweredLocText) # {}
    /\ MatchingNames = {}
    /\ AllNull

(***************************************************************************)
(* main.py: run, with the calls of db.py and email_sender.py it makes      *)
(***************************************************************************)
INTERIMSEARCH == <<"i", "n", "t", "e", "r", "i", "m", "s", "e", "a", "r", "c", "h">>

\* the registry of scrapers, each named by the source it scrapes: three of
\* them, the last one of a source that SOURCE_COUNTRY maps to DK
ALL_SCRAPERS == <<CAPA, INTERIMSEARCH, NIGEL_WRIGHT>>

JOB_A ==
    [id |-> <<"a">>, title |-> TITLE_INTERIM_LUND, company |-> <<"A">>,
     url |-> <<"u">>, source |-> CAPA]
JOB_B ==
    [id |-> <<"b">>, title |-> TITLE_VD_ACME, company |-> <<"B">>,
     url |-> <<"v">>, source |-> INTERIMSEARCH]
JOB_NO_TITLE ==
    [id |-> <<"c">>, title |-> <<>>, company |-> <<"C">>,
     url |-> <<"w">>, source |-> CAPA]
JOB_NO_ID ==
    [id |-> <<>>, title |-> TITLE_VD_ACME, company |-> <<"C">>,
     url |-> <<"x">>, source |-> CAPA]
JOB_D ==
    [id |-> <<"d">>, title |-> TITLE_INTERIM_LUND, company |-> <<"D">>,
     url |-> <<"y">>, source |-> NIGEL_WRIGHT]
JOB_E ==
    [id |-> <<"e">>, title |-> TITLE_VD_ACME, company |-> <<"E">>,
     url |-> <<"z">>, source |-> CAPA]

JobIds == {JOB_A.id, JOB_B.id, JOB_D.id, JOB_E.id}

\* what scraper() may return when it does not raise
ScraperResults(source) ==
    IF source = CAPA
    THEN {<<>>, <<JOB_A>>, <<JOB_NO_TITLE, JOB_NO_ID, JOB_A>>, <<JOB_A, JOB_E>>}
    ELSE IF source = NIGEL_WRIGHT THEN {<<>>, <<JOB_D>>}
    ELSE {<<>>, <<JOB_B>>}

U1 == <<"u", "1">>
U2 == <<"u", "2">>
Users == {U1, U2}

\* a value that is no list and not None: the int 5
INT_5 == <<"<int 5>">>

\* rows of user_preferences as fetch_active_user_preferences returns them
PREFS_U1 ==
    [user_id |-> U1, keywords_include |-> NoneList, keywords_exclude |-> NoneList,
     sources_enabled |-> NoneList, regions |-> NoneList,
     municipalities |-> NoneList, employment_types |-> NoneList]
PREFS_U2 == [PREFS_U1 EXCEPT !.user_id = U2, !.keywords_include = <<INTERIM>>]
PREFS_U2_BAD_SOURCES == [PREFS_U1 EXCEPT !.user_id = U2, !.sources_enabled = INT_5]
PREFS_NO_USER_ID == [k \in DOMAIN PREFS_U1 \ {"user_id"} |-> PREFS_U1[k]]

PreferenceTables ==
    { <<>>,
      <<PREFS_U1, PREFS_U2>>,
      <<PREFS_U2_BAD_SOURCES, PREFS_U1>>,
      <<PREFS_U1, PREFS_NO_USER_ID>> }

\* the preference is a value that `in` and a for loop cannot go through
Malformed(p, k) == Get(p, k, NoneList) = INT_5

\* job_matches_user(j, p) raises TypeError: a check that is reached meets a
\* value that is no list
job_matches_user_raises(j, p) ==
    IF Malformed(p, "countries") THEN TRUE
    ELSE IF CountryRejects(j, p) THEN FALSE
    ELSE IF Malformed(p, "sources_enabled") THEN TRUE
    ELSE IF SourceRejects(j, p) THEN FALSE
    ELSE IF Malformed(p, "keywords_include") THEN TRUE
    ELSE IF IncludeRejects(j, p) THEN FALSE
    ELSE IF Malformed(p, "keywords_exclude") THEN TRUE
    ELSE IF ExcludeRejects(j, p) THEN FALSE
    ELSE IF Malformed(p, "regions")
         THEN Get(j, "lan_code", None) # None
    ELSE IF KnownValueRejects(j, p, "regions", "lan_code") THEN FALSE
    ELSE IF Malformed(p, "municipalities")
         THEN Get(j, "municipality_code", None) # None
    ELSE IF KnownValueRejects(j, p, "municipalities", "municipality_code") THEN FALSE
    ELSE Malformed(p, "employment_types") /\ Get(j, "employment_type", None) # None

\* the variables of the single calls, which a run leaves alone
callVars == <<keyword, text, job, prefs, title, description,
              api_employment_type, ret>>

NoDeliveries == [pair \in Users \X JobIds |-> 0]

MaxRuns == 2

\* the first run of the pipeline against an empty store
InitRun ==
    /\ pc = "init_db"
    /\ jobs_table = {} /\ user_job_queue = <<>>
    /\ user_preferences \in PreferenceTables
    /\ deliveries = NoDeliveries
    /\ scraper_ix = 0 /\ jobs = <<>> /\ new_jobs = <<>> /\ recipients = <<>>
    /\ runs = 1 /\ fetches = 0 /\ scraped = {} /\ caught = {} /\ raised = ""
    /\ happened = {}
    /\ _location_lookup = LookupUnset
    /\ keyword = NoText /\ text = NoText /\ job = NoDict /\ prefs = NoDict
    /\ title = NoText /\ description = NoText /\ api_employment_type = NoText
    /\ ret = FALSE

\* an error leaves run: nothing of run executes after it
Propagate(call) ==
    /\ pc' = "aborted"
    /\ raised' = call

\* init_db(): a smoke test of the store, outside every try
InitDb ==
    /\ pc = "init_db"
    /\ \E reachable \in BOOLEAN :
        IF reachable
        THEN pc' = "scrape" /\ scraper_ix' = 1 /\ UNCHANGED raised
        ELSE Propagate("init_db") /\ UNCHANGED scraper_ix
    /\ UNCHANGED <<callVars, _location_lookup, jobs_table, user_job_queue,
                   user_preferences, deliveries, jobs, new_jobs, recipients,
                   runs, fetches, scraped, caught, happened>>

\* the for loop over ALL_SCRAPERS goes on to the next scraper, or ends
NextScraper ==
    /\ scraper_ix' = scraper_ix + 1
    /\ jobs' = <<>>
    /\ pc' = IF scraper_ix < Len(ALL_SCRAPERS) THEN "scrape" ELSE "queue"

\* except Exception as e: print(...)
Catch(call) ==
    /\ caught' = caught \cup {<<scraper_ix, call>>}
    /\ NextScraper

\* the for loop over jobs goes on with the postings that are left
NextJob(rest) ==
    IF rest = <<>> THEN NextScraper
    ELSE jobs' = rest /\ pc' = "jobs" /\ UNCHANGED scraper_ix

\* the error of scraper() leaves run
ScraperRaises_uncaught ==
    /\ Propagate("scraper")
    /\ UNCHANGED <<scraper_ix, jobs, caught>>

\* jobs = scraper() fails: the error is caught by the try of its source
ScraperRaises ==
    /\ Catch("scraper")
    /\ UNCHANGED raised

\* jobs = scraper(), inside the try of its source
Scrape ==
    /\ pc = "scrape"
    /\ scraped' = scraped \cup {scraper_ix}
    /\ \/ ScraperRaises
       \/ \E found \in ScraperResults(ALL_SCRAPERS[scraper_ix]) :
            NextJob(found) /\ UNCHANGED <<caught, raised>>
    /\ UNCHANGED <<callVars, _location_lookup, jobs_table, user_job_queue,
                   user_preferences, deliveries, new_jobs, recipients,
                   runs, fetches, happened>>

\* a check that lets a posting without title through
LacksIdOrTitle_id_only(j) == ~Truthy(Get(j, "id", None))

\* if not job.get("id") or not job.get("title"): continue
LacksIdOrTitle(j) ==
    ~Truthy(Get(j, "id", None)) \/ ~Truthy(Get(j, "title", None))

\* the postings left in jobs that the loop would have taken as new
NotTakenUp ==
    {<<"cut short", jobs[i]["id"]>> :
        i \in {k \in 1..Len(jobs) :
                  /\ ~LacksIdOrTitle(jobs[k])
                  /\ jobs[k]["id"] \notin jobs_table}}

\* a loop that has marked the posting at hand seen when the error comes
CutShort_marks_seen(call) ==
    /\ Catch(call)
    /\ happened' = happened \cup NotTakenUp
    /\ jobs_table' = jobs_table \cup {Head(jobs)["id"]}
    /\ UNCHANGED new_jobs

\* an error ends the loop over the postings of a source: the posting at hand
\* and the ones after it are left as they are (recorded: the ones that the
\* loop would have taken as new)
CutShort(call) ==
    /\ Catch(call)
    /\ happened' = happened \cup NotTakenUp
    /\ UNCHANGED <<jobs_table, new_jobs>>

\* one pass of the loop over the postings of a source: the id/title check,
\* is_seen, enrich, mark_seen and new_jobs.append, each store call failing or
\* not; every error is caught by the try of the source
ProcessJob ==
    /\ pc = "jobs"
    /\ LET j == Head(jobs)
           rest == Tail(jobs)
       IN  IF LacksIdOrTitle(j)
           THEN /\ NextJob(rest)
                /\ UNCHANGED <<caught, happened, _location_lookup, fetches,
                               jobs_table, new_jobs>>
           ELSE \/ /\ CutShort("is_seen")
                   /\ UNCHANGED <<_location_lookup, fetches>>
                \/ /\ j.id \in jobs_table
                   /\ NextJob(rest)
                   /\ UNCHANGED <<caught, happened, _location_lookup, fetches,
                                  jobs_table, new_jobs>>
                \/ /\ j.id \notin jobs_table
                   /\ _location_lookup = LookupUnset
                   /\ fetches' = fetches + 1
                   /\ CutShort("fetch_swedish_locations")
                   /\ UNCHANGED _location_lookup
                \/ /\ j.id \notin jobs_table
                   /\ _location_lookup' = _ensure_lookup(_location_lookup, swedish_locations)
                   /\ fetches' = IF _location_lookup = LookupUnset
                                 THEN fetches + 1 ELSE fetches
                   /\ \/ CutShort("mark_seen")
                      \/ /\ jobs_table' = jobs_table \cup {j.id}
                         /\ new_jobs' = Append(new_jobs, enrich(j, _location_lookup'[1]))
                         /\ NextJob(rest)
                         /\ UNCHANGED <<caught, happened>>
    /\ UNCHANGED <<callVars, user_job_queue, user_preferences, deliveries,
                   recipients, runs, scraped, raised>>

\* the first call of the queueing loops that raises: prefs["user_id"] of a
\* row without user_id, or job_matches_user on a malformed row
RowRaises(p, found) ==
    \/ "user_id" \notin DOMAIN p
    \/ \E i \in 1..Len(found) : job_matches_user_raises(found[i], p)

LoopRaises(user_prefs, found) ==
    \E u \in 1..Len(user_prefs) : RowRaises(user_prefs[u], found)

RaisingCall(user_prefs, found) ==
    LET u == CHOOSE x \in 1..Len(user_prefs) :
                /\ RowRaises(user_prefs[x], found)
                /\ \A y \in 1..(x - 1) : ~RowRaises(user_prefs[y], found)
    IN  IF "user_id" \notin DOMAIN user_prefs[u] THEN "prefs[user_id]"
        ELSE "job_matches_user"

\* the queue entries of one row of preferences, in the order of new_jobs
EntriesOf(p, found) ==
    LET Matches(j) == job_matches_user(j, p)
        matching == SelectSeq(found, Matches)
    IN  [i \in 1..Len(matching) |->
            [user_id |-> p.user_id, job_id |-> matching[i].id]]

\* queue_entries after the two loops
RECURSIVE QueueEntries(_, _, _)
QueueEntries(user_prefs, found, u) ==
    IF u > Len(user_prefs) THEN <<>>
    ELSE EntriesOf(user_prefs[u], found) \o QueueEntries(user_prefs, found, u + 1)

\* upsert(rows, on_conflict="user_id,job_id", ignore_duplicates=True)
RECURSIVE Upsert(_, _, _)
Upsert(table, rows, i) ==
    IF i > Len(rows) THEN table
    ELSE IF \E r \in 1..Len(table) :
                table[r].user_id = rows[i].user_id /\ table[r].job_id = rows[i].job_id
         THEN Upsert(table, rows, i + 1)
         ELSE Upsert(Append(table, [user_id |-> rows[i].user_id,
                                    job_id |-> rows[i].job_id,
                                    sent |-> FALSE]),
                     rows, i + 1)

\* the queueing phase: no try around any of it
QueuePhase ==
    /\ pc = "queue"
    /\ IF new_jobs = <<>>
       THEN pc' = "digest" /\ UNCHANGED <<user_job_queue, raised>>
       ELSE \/ Propagate("fetch_active_user_preferences") /\ UNCHANGED user_job_queue
            \/ /\ user_preferences = <<>>
               /\ pc' = "digest" /\ UNCHANGED <<user_job_queue, raised>>
            \/ /\ user_preferences # <<>>
               /\ LoopRaises(user_preferences, new_jobs)
               /\ Propagate(RaisingCall(user_preferences, new_jobs))
               /\ UNCHANGED user_job_queue
            \/ /\ user_preferences # <<>>
               /\ ~LoopRaises(user_preferences, new_jobs)
               /\ LET queue_entries == QueueEntries(user_preferences, new_jobs, 1)
                  IN  IF queue_entries = <<>>
                      THEN pc' = "digest" /\ UNCHANGED <<user_job_queue, raised>>
                      ELSE \/ /\ Propagate("batch_insert_queue_entries")
                              /\ UNCHANGED user_job_queue
                           \/ /\ user_job_queue' = Upsert(user_job_queue, queue_entries, 1)
                              /\ pc' = "digest"
                              /\ UNCHANGED raised
    /\ UNCHANGED <<callVars, _location_lookup, jobs_table, user_preferences,
                   deliveries, scraper_ix, jobs, new_jobs, recipients, runs,
                   fetches, scraped, caught, happened>>

\* the users of the rows of user_preferences, in the order of the table
RECURSIVE UsersOf(_)
UsersOf(table) ==
    IF table = <<>> THEN <<>>
    ELSE (IF "user_id" \in DOMAIN Head(table) THEN <<Head(table).user_id>> ELSE <<>>)
         \o UsersOf(Tail(table))

\* what fetch_digest_recipients may return: the users whose delivery_days hold
\* today's weekday
RecipientLists(table) ==
    LET us == UsersOf(table)
    IN  {SelectSeq(us, LAMBDA u : u \in chosen) : chosen \in SUBSET Users}

\* fetch_digest_recipients(today_weekday)
FetchRecipients ==
    /\ pc = "digest"
    /\ \/ Propagate("fetch_digest_recipients") /\ UNCHANGED recipients
       \/ \E found \in RecipientLists(user_preferences) :
            /\ recipients' = found
            /\ pc' = IF found = <<>> THEN "finished" ELSE "deliver"
            /\ UNCHANGED raised
    /\ UNCHANGED <<callVars, _location_lookup, jobs_table, user_job_queue,
                   user_preferences, deliveries, scraper_ix, jobs, new_jobs,
                   runs, fetches, scraped, caught, happened>>

\* fetch_unsent_jobs_for_user(user_id): the job ids of the user's rows with
\* sent_at null
UnsentJobs(user_id) ==
    LET Unsent(row) == row.user_id = user_id /\ ~row.sent
        rows == SelectSeq(user_job_queue, Unsent)
    IN  [i \in 1..Len(rows) |-> rows[i].job_id]

\* mark_queue_sent(user_id, job_ids)
MarkSent(table, user_id, job_ids) ==
    [r \in 1..Len(table) |->
        IF /\ table[r].user_id = user_id
           /\ \E i \in 1..Len(job_ids) : job_ids[i] = table[r].job_id
           /\ ~table[r].sent
        THEN [table[r] EXCEPT !.sent = TRUE]
        ELSE table[r]]

\* the digest has gone out with these jobs
Delivered(user_id, job_ids) ==
    [pair \in DOMAIN deliveries |->
        IF pair[1] = user_id /\ \E i \in 1..Len(job_ids) : job_ids[i] = pair[2]
        THEN deliveries[pair] + 1
        ELSE deliveries[pair]]

\* the for loop over recipients goes on
NextRecipient ==
    /\ recipients' = Tail(recipients)
    /\ pc' = IF Tail(recipients) = <<>> THEN "finished" ELSE "deliver"

\* a run that marks the entries although the digest has not gone out
SendFailed_marks_sent(user_id) ==
    /\ happened' = happened \cup {<<"send_digest failed", user_id>>}
    /\ user_job_queue' = MarkSent(user_job_queue, user_id, UnsentJobs(user_id))
    /\ NextRecipient
    /\ UNCHANGED <<deliveries, raised>>

\* send_digest returned False: "FAILED (will retry)", nothing is marked
SendFailed(user_id) ==
    /\ happened' = happened \cup {<<"send_digest failed", user_id>>}
    /\ NextRecipient
    /\ UNCHANGED <<user_job_queue, deliveries, raised>>

\* one pass of the loop over recipients: fetch_unsent_jobs_for_user,
\* send_digest (which catches its own errors and returns False) and
\* mark_queue_sent; no try around the two store calls
Deliver ==
    /\ pc = "deliver"
    /\ LET user_id == Head(recipients)
           unsent == UnsentJobs(user_id)
       IN  \/ /\ Propagate("fetch_unsent_jobs_for_user")
              /\ UNCHANGED <<recipients, user_job_queue, deliveries, happened>>
           \/ /\ unsent = <<>>
              /\ NextRecipient
              /\ UNCHANGED <<user_job_queue, deliveries, raised, happened>>
           \/ /\ unsent # <<>>
              /\ SendFailed(user_id)
           \/ /\ unsent # <<>>
              /\ deliveries' = Delivered(user_id, unsent)
              /\ UNCHANGED happened
              /\ \/ /\ Propagate("mark_queue_sent")
                    /\ UNCHANGED <<recipients, user_job_queue>>
                 \/ /\ user_job_queue' = MarkSent(user_job_queue, user_id, unsent)
                    /\ NextRecipient
                    /\ UNCHANGED raised
    /\ UNCHANGED <<callVars, _location_lookup, jobs_table, user_preferences,
                   scraper_ix, jobs, new_jobs, runs, fetches, scraped, caught>>

\* the scheduler starts the pipeline again, in a new process: the store and
\* the mail that has gone out stay, everything in memory starts afresh
Rerun ==
    /\ pc \in {"finished", "aborted"}
    /\ runs < MaxRuns
    /\ runs' = runs + 1
    /\ pc' = "init_db"
    /\ _location_lookup' = LookupUnset
    /\ scraper_ix' = 0 /\ jobs' = <<>> /\ new_jobs' = <<>> /\ recipients' = <<>>
    /\ fetches' = 0 /\ scraped' = {} /\ caught' = {} /\ raised' = ""
    /\ UNCHANGED <<callVars, jobs_table, user_job_queue, user_preferences,
                   deliveries, happened>>

NextRun ==
    \/ InitDb
    \/ Scrape
    \/ ProcessJob
    \/ QueuePhase
    \/ FetchRecipients
    \/ Deliver
    \/ Rerun

SpecRun == InitRun /\ [][NextRun]_vars

(***************************************************************************)
(* Properties of run                                                       *)
(***************************************************************************)
\* the calls whose error run has caught in this run
CaughtCalls == {c[2] : c \in caught}

\* the gazetteer could not be loaded at some resolution of this run
GazetteerFailed ==
    "fetch_swedish_locations" \in CaughtCalls \/ raised = "fetch_swedish_locations"

\* C16: if the gazetteer cannot be loaded from the store, the error raised on
\* the first resolution leaves run: no further source is processed and no
\* queueing or digest delivery follows.
C16_GazetteerFatal ==
    GazetteerFailed => (pc = "aborted" /\ raised = "fetch_swedish_locations")

\* what run does: the error is caught with the other errors of the source,
\* and it never leaves run
GazetteerFailureIsCaught ==
    /\ raised # "fetch_swedish_locations"
    /\ GazetteerFailed => "fetch_swedish_locations" \in CaughtCalls

\* C17: within one process the gazetteer store is called exactly once, on the
\* first resolution, and the in-memory lookup is never modified after it has
\* been built.
C17_FetchedOnce ==
    /\ fetches <= 1
    /\ _location_lookup # LookupUnset => fetches = 1

\* what holds: once the lookup is built the process neither calls the store
\* for it again nor changes it
LookupBuiltOnce ==
    [][(_location_lookup # LookupUnset /\ runs' = runs)
          => (_location_lookup' = _location_lookup /\ fetches' = fetches)]_vars

NoDuplicateQueueEntries ==
    \A r, s \in 1..Len(user_job_queue) :
        (/\ user_job_queue[r].user_id = user_job_queue[s].user_id
         /\ user_job_queue[r].job_id = user_job_queue[s].job_id) => r = s

\* C18: re-running the pipeline over the same postings, also after runs in
\* which steps failed, never creates a second queue entry for the same
\* (user_id, job_id) and never sends a subscriber a posting that an earlier
\* successful send has delivered to that subscriber.
C18_Idempotent ==
    /\ NoDuplicateQueueEntries
    /\ \A pair \in DOMAIN deliveries : deliveries[pair] <= 1

\* the positions of the scrapers that raised in this run
FailedScrapers == {c[1] : c \in {x \in caught : x[2] = "scraper"}}

\* the calls of the queueing and digest phases
LaterPhaseCalls ==
    {"fetch_active_user_preferences", "prefs[user_id]", "job_matches_user",
     "batch_insert_queue_entries", "fetch_digest_recipients",
     "fetch_unsent_jobs_for_user", "mark_queue_sent"}

\* C19: a scraper that raises is caught at the driver level: its error does
\* not leave run, every later source is still scraped, the queueing and
\* digest phases are still entered (run ends there, or by an error of
\* theirs), and the failed source adds nothing to new_jobs.
C19_ScraperFailureContained ==
    /\ raised # "scraper"
    /\ FailedScrapers # {} =>
        /\ pc \in {"queue", "digest", "deliver", "finished", "aborted"}
              => scraped = 1..Len(ALL_SCRAPERS)
        /\ pc = "aborted" => raised \in LaterPhaseCalls
        /\ \A i \in 1..Len(new_jobs) : \A f \in FailedScrapers :
              new_jobs[i]["source"] # ALL_SCRAPERS[f]

\* the first scraper raised; the second source was scraped, its posting was
\* queued and the digest with it has gone out
C19_Witness ==
    /\ pc = "finished"
    /\ runs = 1
    /\ FailedScrapers = {1}
    /\ scraped = {1, 2, 3}
    /\ Len(new_jobs) = 1 /\ new_jobs[1]["id"] = JOB_B.id
    /\ deliveries[<<U1, JOB_B.id>>] = 1

\* C20: if evaluating one subscriber's preferences raises because they are
\* malformed, only that subscriber's evaluation is rejected: the error does
\* not leave run, and the matching entries of the other subscribers are
\* inserted.
C20_MalformedIsolated ==
    /\ raised \notin {"prefs[user_id]", "job_matches_user"}
    /\ (pc \in {"digest", "deliver", "finished"} /\ new_jobs # <<>>) =>
        \A u \in 1..Len(user_preferences) :
            ~RowRaises(user_preferences[u], new_jobs) =>
                \A e \in 1..Len(EntriesOf(user_preferences[u], new_jobs)) :
                    \E r \in 1..Len(user_job_queue) :
                        /\ user_job_queue[r].user_id = user_preferences[u].user_id
                        /\ user_job_queue[r].job_id =
                              EntriesOf(user_preferences[u], new_jobs)[e].job_id

(***************************************************************************)
(* Digest delivery                                                         *)
(***************************************************************************)
\* a pass of the loop over recipients in which send_digest returned False:
\* there was something to send, nothing has gone out, no error left run
SendReturnedFalse ==
    /\ pc = "deliver"
    /\ UnsentJobs(Head(recipients)) # <<>>
    /\ deliveries' = deliveries
    /\ pc' # "aborted"

\* rows of user_job_queue stay; a row changes only by being marked sent, in
\* the step in which a digest holding its job has gone out to its user
MarkedOnlyWhenDelivered ==
    /\ Len(user_job_queue') >= Len(user_job_queue)
    /\ \A r \in 1..Len(user_job_queue) :
        \/ user_job_queue'[r] = user_job_queue[r]
        \/ /\ ~user_job_queue[r].sent
           /\ user_job_queue'[r] = [user_job_queue[r] EXCEPT !.sent = TRUE]
           /\ LET pair == <<user_job_queue[r].user_id, user_job_queue[r].job_id>>
              IN  deliveries'[pair] = deliveries[pair] + 1

\* a posting that enters new_jobs (enriched, to be matched) has no queue entry
NoQueuedPostingIsNew ==
    Len(new_jobs') > Len(new_jobs) =>
        \A r \in 1..Len(user_job_queue) :
            user_job_queue[r].job_id # new_jobs'[Len(new_jobs')]["id"]

\* C21: queue entries are marked sent only after send_digest returned True
\* for an email holding them; when send_digest returns False the subscriber's
\* entries are left unchanged, delivery goes on with the next recipient, no
\* posting is enriched or matched again, and the entries stay unsent in the
\* store, where the digest of a later run fetches them.
C21_MarkedOnlyAfterSend ==
    /\ [](\A r \in 1..Len(user_job_queue) :
            user_job_queue[r].sent =>
                deliveries[<<user_job_queue[r].user_id,
                             user_job_queue[r].job_id>>] >= 1)
    /\ [][MarkedOnlyWhenDelivered]_vars
    /\ [][NoQueuedPostingIsNew]_vars
    /\ [][SendReturnedFalse =>
            /\ user_job_queue' = user_job_queue
            /\ recipients' = Tail(recipients)
            /\ pc' \in {"deliver", "finished"}
            /\ jobs_table' = jobs_table /\ new_jobs' = new_jobs]_vars

\* the send to U1 failed in the first run; in the second run nothing is new,
\* and U1's entry of posting a, never delivered, is about to be sent again
C21_Witness ==
    /\ runs = 2
    /\ pc = "deliver"
    /\ Head(recipients) = U1
    /\ <<"send_digest failed", U1>> \in happened
    /\ new_jobs = <<>>
    /\ \E i \in 1..Len(UnsentJobs(U1)) : UnsentJobs(U1)[i] = JOB_A.id
    /\ deliveries[<<U1, JOB_A.id>>] = 0

(***************************************************************************)
(* Which postings run takes up                                             *)
(***************************************************************************)
\* the postings that the sources of the model return
ScrapedPostings ==
    UNION {{found[i] : i \in 1..Len(found)} :
              found \in UNION {ScraperResults(ALL_SCRAPERS[s]) :
                                  s \in 1..Len(ALL_SCRAPERS)}}

\* the posting has a non-empty id and a non-empty title
HasIdAndTitle(j) ==
    /\ Get(j, "id", None) \notin {None, <<>>}
    /\ Get(j, "title", None) \notin {None, <<>>}

\* the ids of the postings that lack id or title
SkippedIds == {Get(j, "id", None) : j \in {x \in ScrapedPostings : ~HasIdAndTitle(x)}}

\* the enrichment fields are there
Enriched(j) ==
    {"country", "municipality_code", "lan_code", "location_raw",
     "employment_type"} \subseteq DOMAIN j

\* a step of a run that persists a posting or adds to new_jobs does both, for
\* the posting at hand, which has id and title and was not in the store
TakenUpOnlyIfNew ==
    (runs' = runs /\ (jobs_table' # jobs_table \/ new_jobs' # new_jobs)) =>
        /\ pc = "jobs"
        /\ HasIdAndTitle(Head(jobs))
        /\ Head(jobs)["id"] \notin jobs_table
        /\ jobs_table' = jobs_table \cup {Head(jobs)["id"]}
        /\ Len(new_jobs') = Len(new_jobs) + 1
        /\ SubSeq(new_jobs', 1, Len(new_jobs)) = new_jobs
        /\ new_jobs'[Len(new_jobs')]["id"] = Head(jobs)["id"]
        /\ Enriched(new_jobs'[Len(new_jobs')])

\* the gazetteer is asked for (by the first enrich of a process) only for a
\* posting with id and title that is not in the store
EnrichedOnlyIfNew ==
    (fetches' > fetches \/ (_location_lookup' # _location_lookup /\ runs' = runs)) =>
        /\ pc = "jobs"
        /\ HasIdAndTitle(Head(jobs))
        /\ Head(jobs)["id"] \notin jobs_table

\* the rows that a step adds to user_job_queue are of postings of new_jobs,
\* which are in the store
QueuedOnlyIfNew ==
    \A r \in (Len(user_job_queue) + 1)..Len(user_job_queue') :
        /\ \E i \in 1..Len(new_jobs) : new_jobs[i]["id"] = user_job_queue'[r].job_id
        /\ user_job_queue'[r].job_id \in jobs_table

\* C22: a scraped posting is enriched, persisted and evaluated against the
\* subscribers only if it has a non-empty id and a non-empty title and was
\* not in the store; a posting that lacks id or title or is in the store is
\* never enriched, never upserted and never in a queue entry of this run, and
\* every queue entry refers to a posting persisted before it was inserted.
C22_OnlyNewPostings ==
    /\ [](/\ jobs_table \cap (SkippedIds \cup {<<>>, None}) = {}
          /\ \A i \in 1..Len(new_jobs) :
                /\ HasIdAndTitle(new_jobs[i])
                /\ new_jobs[i]["id"] \in jobs_table
          /\ \A r \in 1..Len(user_job_queue) :
                /\ user_job_queue[r].job_id \in jobs_table
                /\ user_job_queue[r].job_id \notin SkippedIds \cup {<<>>, None})
    /\ [][TakenUpOnlyIfNew]_vars
    /\ [][EnrichedOnlyIfNew]_vars
    /\ [][QueuedOnlyIfNew]_vars

\* second run: the source has returned a posting without title, one without
\* id, and posting a, which the first run had persisted and queued; the
\* first has been passed over, nothing is new
C22_Witness ==
    /\ runs = 2
    /\ pc = "jobs" /\ jobs = <<JOB_NO_ID, JOB_A>>
    /\ new_jobs = <<>>
    /\ jobs_table = {JOB_A.id}
    /\ user_job_queue # <<>>
    /\ \A r \in 1..Len(user_job_queue) : user_job_queue[r].job_id = JOB_A.id

(***************************************************************************)
(* A process that calls the two parsers again and again                    *)
(***************************************************************************)
MaxCalls == 3

ROW_NO_NAME ==
    [municipality_code |-> <<"9", "9", "0", "2">>,
     municipality_name |-> None,
     lan_code |-> <<"9", "9">>,
     lan_name |-> <<"E", "x", "e", "m", "p", "e", "l", " ", "l", "ä", "n">>]

\* what the store's table may hold at the time of a fetch
StoreTables ==
    { swedish_locations,
      <<ROW_LUND>>,
      <<ROW_LUND, ROW_NO_NAME, swedish_locations[1]>> }

CallTitles == {TITLE_INTERIM_LUND, TITLE_VD_ACME}
CallDescriptions == {None, DESC_STOCKHOLM}
CallHints == {None, HINT_TILLSVIDARE}

\* the calls of the parsers made so far
ParserCalls == {c \in happened : c[2] # "fetch_swedish_locations"}

\* the call, numbered, with its arguments and its outcome
Call(fn, args, outcome) == <<Cardinality(ParserCalls) + 1, fn, args, outcome>>

InitCalls ==
    /\ pc = "idle"
    /\ NoRun
    /\ _location_lookup = LookupUnset
    /\ title = NoText /\ description = NoText /\ api_employment_type = NoText
    /\ ret = None
    /\ keyword = NoText /\ text = NoText
    /\ job = NoDict /\ prefs = NoDict

\* parse_location(title, description), with what _ensure_lookup does first:
\* the store cannot be reached, or the loop over its rows raises, or the
\* lookup is there
CallParseLocation ==
    /\ pc = "idle"
    /\ Cardinality(ParserCalls) < MaxCalls
    /\ \E ttl \in CallTitles, desc \in CallDescriptions :
        /\ title' = ttl
        /\ description' = desc
        /\ \/ /\ _location_lookup = LookupUnset
              /\ happened' = happened \cup
                    {Call("parse_location", <<ttl, desc>>,
                          <<"raised", "fetch_swedish_locations">>)}
              /\ UNCHANGED <<_location_lookup, ret>>
           \/ \E rows \in StoreTables :
                LET fetched == IF _location_lookup = LookupUnset
                               THEN {Call("fetch_swedish_locations", <<>>,
                                          <<"returned", rows>>)}
                               ELSE {}
                IN  /\ _location_lookup' = _ensure_lookup(_location_lookup, rows)
                    /\ IF _ensure_lookup_raises(_location_lookup, rows)
                       THEN /\ happened' = happened \cup fetched \cup
                                 {Call("parse_location", <<ttl, desc>>,
                                       <<"raised", "_ensure_lookup">>)}
                            /\ UNCHANGED ret
                       ELSE /\ ret' = parse_location(ttl, desc, _location_lookup'[1])
                            /\ happened' = happened \cup fetched \cup
                                 {Call("parse_location", <<ttl, desc>>,
                                       <<"returned", ret'>>)}
    /\ pc' = "idle"
    /\ UNCHANGED <<keyword, text, job, prefs, api_employment_type,
                   jobs_table, user_job_queue, user_preferences, deliveries,
                   scraper_ix, jobs, new_jobs, recipients, runs, fetches,
                   scraped, caught, raised>>

\* parse_employment_type(title, description, api_employment_type)
CallParseEmploymentType ==
    /\ pc = "idle"
    /\ Cardinality(ParserCalls) < MaxCalls
    /\ \E ttl \in CallTitles, desc \in CallDescriptions, hint \in CallHints :
        /\ title' = ttl
        /\ description' = desc
        /\ api_employment_type' = hint
        /\ ret' = parse_employment_type(ttl, desc, hint)
        /\ happened' = happened \cup
              {Call("parse_employment_type", <<ttl, desc, hint>>,
                    <<"returned", ret'>>)}
    /\ pc' = "idle"
    /\ UNCHANGED <<keyword, text, job, prefs, _location_lookup,
                   jobs_table, user_job_queue, user_preferences, deliveries,
                   scraper_ix, jobs, new_jobs, recipients, runs, fetches,
                   scraped, caught, raised>>

NextCalls ==
    \/ CallParseLocation
    \/ CallParseEmploymentType

SpecCalls == InitCalls /\ [][NextCalls]_vars

\* C23: within one process, two calls of parse_location with the same (title,
\* description) return identical results, and so do two calls of
\* parse_employment_type with the same (title, description,
\* api_employment_type), whatever other calls happen in between.
C23_Deterministic ==
    \A a, b \in ParserCalls :
        (/\ a[2] = b[2] /\ a[3] = b[3]
         /\ a[4][1] = "returned" /\ b[4][1] = "returned") => a[4] = b[4]

\* parse_location has returned twice for the same title and description, the
\* second time after the store's table has been fetched and after another
\* call of parse_location with another title
C23_Witness ==
    \E a, b, c \in ParserCalls :
        /\ a[1] = 1 /\ b[1] = 2 /\ c[1] = 3
        /\ a[2] = "parse_location" /\ b[2] = "parse_location"
        /\ c[2] = "parse_location"
        /\ a[3] = c[3] /\ b[3] # a[3]
        /\ a[4][1] = "returned" /\ b[4][1] = "returned" /\ c[4][1] = "returned"
        /\ a[4][2].location_raw # None

\* the rows that the store returned to this process
FetchedRows ==
    {c[4][2] : c \in {x \in happened : x[2] = "fetch_swedish_locations"}}

\* d has an entry for every named row and every alias whose official name is
\* among the rows
Complete(d, rows) ==
    /\ \A i \in 1..Len(rows) :
          rows[i].municipality_name # None =>
              DictHas(d, Lower(rows[i].municipality_name))
    /\ \A k \in 1..Len(_ALIASES) :
          (\E i \in 1..Len(rows) :
              /\ rows[i].municipality_name # None
              /\ Lower(rows[i].municipality_name) = _ALIASES[k][2])
            => DictHas(d, _ALIASES[k][1])

\* C28: _location_lookup is never observed partially built: it is unset, or
\* it has an entry for every row that the store returned and the applicable
\* aliases; after a build that failed part-way, parse_location does not
\* resolve against an incomplete lookup.
C28_NeverPartial ==
    /\ _location_lookup # LookupUnset =>
          \E rows \in FetchedRows : Complete(_location_lookup[1], rows)
    /\ \A c \in ParserCalls :
          (c[2] = "parse_location" /\ c[4][1] = "returned") =>
              \E rows \in FetchedRows : Complete(_location_lookup[1], rows)

\* what holds: the lookup is incomplete only after a call in which the loop
\* over the rows raised, and it then stays as that call left it
PartialOnlyAfterRaise ==
    (/\ _location_lookup # LookupUnset
     /\ ~\E rows \in FetchedRows : Complete(_location_lookup[1], rows))
        => \E c \in ParserCalls : c[4] = <<"raised", "_ensure_lookup">>

(***************************************************************************)
(* What enrich and job_matches_user leave alone                            *)
(***************************************************************************)
IdentityFields == {"id", "title", "description", "company", "url", "source"}

EnrichmentFields ==
    {"country", "municipality_code", "lan_code", "location_raw", "employment_type"}

\* the two dicts agree on the fields: the same ones are there, with the same
\* values
SameOn(fields, before, after) ==
    \A k \in fields :
        /\ k \in DOMAIN before <=> k \in DOMAIN after
        /\ k \in DOMAIN before => after[k] = before[k]

\* C24: enrich leaves id, title, description, company, url and source of the
\* posting unchanged and sets country, municipality_code, lan_code,
\* location_raw and employment_type (an enrich that raises at the gazetteer
\* has set country only); job_matches_user changes neither the posting nor
\* the preferences it is given.
C24_Frame ==
    /\ [][(pc = "raw" /\ pc' = "call") =>
            /\ SameOn(IdentityFields, job, job')
            /\ DOMAIN job' =
                 (DOMAIN job \ {"api_employment_type"}) \cup EnrichmentFields]_vars
    /\ [][(pc = "raw" /\ pc' = "raised") =>
            /\ SameOn(IdentityFields, job, job')
            /\ DOMAIN job' = DOMAIN job \cup {"country"}]_vars
    /\ [][(pc = "call" /\ pc' = "done") =>
            /\ job' = job
            /\ prefs' \in FilterPrefs]_vars

\* a posting with description and api_employment_type has been enriched (the
\* hint is what made it permanent, and it is gone) and matched
C24_Witness ==
    /\ pc = "done"
    /\ job["title"] = TITLE_VD_ACME
    /\ "description" \in DOMAIN job /\ job["description"] = DESC_STOCKHOLM
    /\ EnrichmentFields \subseteq DOMAIN job
    /\ job["employment_type"] = PERMANENT
    /\ job["location_raw"] # None
    /\ "api_employment_type" \notin DOMAIN job
    /\ prefs \in FilterPrefs

(***************************************************************************)
(* Title and description in parse_location                                 *)
(***************************************************************************)
\* the gazetteer names that occur as whole words in this part of the text
NamesIn(part) ==
    {name \in GazetteerNames :
        \E s \in 1..Len(part) : StandsAloneAt(name, Lower(part), s)}

TitleNames == NamesIn(OrEmpty(title))
DescriptionNames == NamesIn(OrEmpty(description))

\* the text of the call holds no U+0130, whose lower case is two characters
NoDottedI == \A i \in 1..Len(LocText) : LocText[i] # DOTTED_I

\* C25: the title is checked before the description: when one gazetteer name
\* occurs as a whole word in the title and a different one occurs as a whole
\* word only in the description, the result is the entry of the name found
\* in the title.
C25_TitleFirst ==
    (/\ pc = "done"
     /\ NoDottedI
     /\ TitleNames # {}
     /\ DescriptionNames \ TitleNames # {}) =>
        \E name \in TitleNames : CodesOf(name)

\* what holds instead: length decides, wherever the names stand
LongestFirstAcrossParts ==
    (/\ pc = "done"
     /\ NoDottedI
     /\ TitleNames # {}
     /\ DescriptionNames \ TitleNames # {}) =>
        \E name \in MatchingNames :
            /\ \A other \in MatchingNames : Len(other) <= Len(name)
            /\ CodesOf(name)

\* a occurs in b as a contiguous piece
IsSubstring(a, b) ==
    \E s \in 1..(Len(b) - Len(a) + 1) :
        \A i \in 1..Len(a) : b[s + i - 1] = a[i]

\* C29: a match never straddles the join of title and description: a
\* location_raw that is not null is a contiguous piece of the title alone or
\* of the description alone, and its lower case is the gazetteer name whose
\* codes are returned.
C29_NoStraddle ==
    (pc = "done" /\ NoDottedI /\ ret.location_raw # None) =>
        /\ \/ IsSubstring(ret.location_raw, OrEmpty(title))
           \/ IsSubstring(ret.location_raw, OrEmpty(description))
        /\ Lower(ret.location_raw) \in GazetteerNames
        /\ CodesOf(Lower(ret.location_raw))

\* what holds: the matched text is a piece of title + " " + description, and
\* its lower case is the name whose codes are returned
PieceOfCombinedText ==
    (pc = "done" /\ NoDottedI /\ ret.location_raw # None) =>
        /\ IsSubstring(ret.location_raw, LocText)
        /\ Lower(ret.location_raw) \in GazetteerNames
        /\ CodesOf(Lower(ret.location_raw))

(***************************************************************************)
(* Postings of the sources outside Sweden                                  *)
(***************************************************************************)
\* the sources that SOURCE_COUNTRY maps to a country other than SE
NonSwedishSources == {src \in DOMAIN SOURCE_COUNTRY : SOURCE_COUNTRY[src] # SE}

\* the ids of the postings of these sources
NonSwedishIds ==
    {j["id"] : j \in {x \in ScrapedPostings :
                        Get(x, "source", <<>>) \in NonSwedishSources}}

\* C26: in the pipeline as wired, a new posting of a source that
\* SOURCE_COUNTRY maps to a country other than SE is never queued for any
\* subscriber: the rows of preferences that are fetched carry no countries
\* field, and the matcher then restricts to "SE".
C26_NonSwedishNeverQueued ==
    /\ \A u \in 1..Len(user_preferences) :
          "countries" \notin DOMAIN user_preferences[u]
    /\ \A i \in 1..Len(new_jobs) :
          Get(new_jobs[i], "source", <<>>) \in NonSwedishSources
              => new_jobs[i]["country"] # SE
    /\ \A r \in 1..Len(user_job_queue) :
          user_job_queue[r].job_id \notin NonSwedishIds

\* the queueing phase is over: the posting of nigel_wright and posting a were
\* new, both hold the keyword of U2 and U1 has no restriction; posting a is
\* queued for both, the posting of nigel_wright for nobody
C26_Witness ==
    /\ pc = "digest"
    /\ user_preferences = <<PREFS_U1, PREFS_U2>>
    /\ \E i \in 1..Len(new_jobs) :
          new_jobs[i]["id"] = JOB_D.id /\ new_jobs[i]["country"] = DK
    /\ \E i \in 1..Len(new_jobs) : new_jobs[i]["id"] = JOB_A.id
    /\ \A u \in Users : \E r \in 1..Len(user_job_queue) :
          user_job_queue[r].user_id = u /\ user_job_queue[r].job_id = JOB_A.id
    /\ \A r \in 1..Len(user_job_queue) : user_job_queue[r].job_id # JOB_D.id

(***************************************************************************)
(* Postings that are persisted but not queued                              *)
(***************************************************************************)
\* the posting as enrich leaves it when the gazetteer is loaded
EnrichedPosting(j) ==
    enrich(j, _ensure_lookup(LookupUnset, swedish_locations)[1])

\* the rows of preferences of the model
PreferenceRows ==
    UNION {{table[u] : u \in 1..Len(table)} : table \in PreferenceTables}

\* the row can be evaluated and the posting, once enriched, matches it
RowMatches(p, j) ==
    /\ "user_id" \in DOMAIN p
    /\ ~job_matches_user_raises(EnrichedPosting(j), p)
    /\ job_matches_user(EnrichedPosting(j), p)

\* the pairs <<row, posting>> that match
MatchingPairs ==
    UNION {IF RowMatches(m[1], m[2]) THEN {m} ELSE {} :
              m \in PreferenceRows \X {j \in ScrapedPostings : HasIdAndTitle(j)}}

\* the pairs <<position of a row, posting>> such that the posting is
\* persisted and matches the row
PersistedMatches ==
    {m \in (1..Len(user_preferences)) \X ScrapedPostings :
        /\ <<user_preferences[m[1]], m[2]>> \in MatchingPairs
        /\ m[2]["id"] \in jobs_table}

Queued(user_id, job_id) ==
    \E r \in 1..Len(user_job_queue) :
        user_job_queue[r].user_id = user_id /\ user_job_queue[r].job_id = job_id

\* the posting is in new_jobs of a run whose queueing phase is still to come
StillToBeQueued(j) ==
    /\ pc \in {"scrape", "jobs", "queue"}
    /\ \E i \in 1..Len(new_jobs) : new_jobs[i]["id"] = j["id"]

\* the posting is persisted and matches, it has no queue entry, and it is not
\* among the postings that this run is going to queue
Lost(m) ==
    /\ m \in PersistedMatches
    /\ ~Queued(user_preferences[m[1]].user_id, m[2]["id"])
    /\ ~StillToBeQueued(m[2])

\* C27: every posting that run has persisted and that matches an active
\* subscriber's preferences gets a queue entry for that subscriber, in this
\* run or a later one, also when the run is aborted by an error after the
\* posting was marked seen and before the queue insertion: at every moment
\* the entry is there or the posting is among those still to be queued.
C27_EventuallyQueued ==
    \A m \in (1..Len(user_preferences)) \X ScrapedPostings : ~Lost(m)

\* what holds: a posting in that state stays in it through every step, the
\* steps of later runs included, so its queue entry never comes
LostStaysLost ==
    [][\A m \in (1..Len(user_preferences)) \X ScrapedPostings :
          Lost(m) => Lost(m)']_vars

(***************************************************************************)
(* An error while the postings of a source are processed                   *)
(***************************************************************************)
\* the posting of the model with this id
PostingOf(job_id) ==
    CHOOSE j \in ScrapedPostings : HasIdAndTitle(j) /\ j["id"] = job_id

\* the step in which run catches an error inside the loop over the postings
ErrorInJobsLoop == pc = "jobs" /\ caught' # caught /\ runs' = runs

\* the posting at hand was not taken up when an earlier loop was ended by an
\* error, and it is still not in the store
LeftBehind ==
    /\ pc = "jobs"
    /\ HasIdAndTitle(Head(jobs))
    /\ <<"cut short", Head(jobs)["id"]>> \in happened
    /\ Head(jobs)["id"] \notin jobs_table

\* C30: an exception raised while a source's postings are processed marks
\* none of the postings not yet persisted as seen, so a later run that
\* scrapes them again takes them as new (unless an error comes again); the
\* postings persisted before the exception stay in new_jobs, the run goes on
\* with the next source, and when the queueing phase has gone through every
\* posting of new_jobs is queued for the subscribers it matches.
C30_ErrorKeepsPostingsNew ==
    /\ [][ErrorInJobsLoop =>
            /\ jobs_table' = jobs_table
            /\ new_jobs' = new_jobs
            /\ pc' \in {"scrape", "queue"}]_vars
    /\ [][LeftBehind =>
            \/ ErrorInJobsLoop
            \/ /\ jobs_table' = jobs_table \cup {Head(jobs)["id"]}
               /\ Len(new_jobs') = Len(new_jobs) + 1
               /\ new_jobs'[Len(new_jobs')]["id"] = Head(jobs)["id"]]_vars
    /\ [](pc \in {"digest", "deliver", "finished"} =>
            \A i \in 1..Len(new_jobs) : \A u \in 1..Len(user_preferences) :
                <<user_preferences[u], PostingOf(new_jobs[i]["id"])>> \in MatchingPairs
                    => Queued(user_preferences[u].user_id, new_jobs[i]["id"]))

\* in the first run posting a was persisted and queued and an error came at
\* posting e; the second run has taken posting e as new and queued it
C30_Witness ==
    /\ runs = 2
    /\ pc = "digest"
    /\ <<"cut short", JOB_E.id>> \in happened
    /\ <<"cut short", JOB_A.id>> \notin happened
    /\ Len(new_jobs) = 1 /\ new_jobs[1]["id"] = JOB_E.id
    /\ Queued(U1, JOB_A.id)
    /\ Queued(U1, JOB_E.id)

====
